---------------------------- MODULE Spec2Model ----------------------------
(***************************************************************************)
(* A model of lemonsauce's ColourSolid (src/lemonsauce/solidtools).        *)
(*                                                                         *)
(* Numbers.  The code works on floating-point arrays.  The model works in  *)
(* exact arithmetic: after normalisation every entry of base_curves is a   *)
(* rational whose denominator divides `unit`, the least common multiple    *)
(* of the raw column sums, so an entry is stored as the integer v standing *)
(* for v/unit.  The value 1.0 is `unit`, the centre 0.5 is unit/2.  Rounding   *)
(* of floating-point sums is not modelled.                                 *)
(*                                                                         *)
(* Indices.  Python arrays are 0-based.  Arrays are TLA+ sequences, and    *)
(* every stored index (a vertex number inside a simplex, an entry of       *)
(* hull.vertices) keeps its 0-based Python value; At(s, i) reads s[i].     *)
(***************************************************************************)
EXTENDS Integers, Sequences, FiniteSets, TLC

VARIABLES
    phase,           \* "Uninitialized" | "Constructed" | "ConstructFailed"
    args,            \* the constructor's arguments
    qh,              \* the hull primitive's tie-breaking (fixed per process)
    n_dims,          \* self.n_dims
    base_n_entries,  \* self.base_n_entries
    unit,            \* the integer that stands for 1.0 in base_curves/curves
    base_curves,     \* self.base_curves (normalised), rows of n_dims entries
    curves,          \* self.curves: the pooled points
    n_points,        \* self.n_points
    _hull_data,      \* self._hull_data: None or a hull record
    calc_runs,       \* how many times calculate() has been entered
    hull_runs,       \* how many times the hull primitive has been invoked
    accesses,        \* hull_data reads made by the accessors: 0, 1, 2 for more
    grown,           \* what calculate() yields on this solid's pooled points
    last,            \* the last call made on the object and its outcome
    threads          \* each thread reading hull_data: its position and what it holds

vars == <<phase, args, qh, n_dims, base_n_entries, unit, base_curves, curves,
          n_points, _hull_data, calc_runs, hull_runs, accesses, grown, last,
          threads>>

\* Python's None; every value it is compared with is a record
None == [none |-> TRUE]

----------------------------------------------------------------------------
(* Bounds of the model *)

\* largest number of channels (columns of the curve matrix)
MaxDims == 3
\* largest number of wavelength samples (rows of the curve matrix)
MaxRows == 4
\* largest number of entries of the curve matrix
MaxCells == 12
\* largest shift, in samples, between the curves of neighbouring channels
MaxStride == 2
\* calculate() may be re-entered without bound (1-D solid, failed hull);
\* the accessors that would enter it again stop at this count
MaxCalls == 3
\* the rows of the two curves of the D=2, tolerance 1.0 scenario
ScenarioRows == 10
\* largest number of rows of the two-channel curves the pooling is run on
PoolRows == 4

----------------------------------------------------------------------------
(* Array helpers *)

At(s, i) == s[i + 1]


RECURSIVE SumSeq(_)
SumSeq(s) == IF s = <<>> THEN 0 ELSE Head(s) + SumSeq(Tail(s))

VecAdd(a, b) == [i \in 1..Len(a) |-> a[i] + b[i]]

\* the column-wise sum of a matrix with d columns
RECURSIVE ColumnSums(_, _)
ColumnSums(m, d) ==
    IF m = <<>> THEN [i \in 1..d |-> 0]
    ELSE VecAdd(Head(m), ColumnSums(Tail(m), d))

----------------------------------------------------------------------------
(* Constructor arguments *)

Min2(a, b) == IF a < b THEN a ELSE b

\* A generator curve: amplitude amp on the samples lo..hi, zero elsewhere.
BoxCurve(k, lo, hi, amp) == [r \in 1..k |-> IF lo <= r /\ r <= hi THEN amp ELSE 0]

\* the K x D matrix whose columns are the given curves
MatrixOf(cols, k) == [r \in 1..k |-> [i \in 1..Len(cols) |-> cols[i][r]]]

\* d sensitivity curves of the same width w over k samples, channel i shifted
\* by (i-1)*stride samples (kept inside the sampled range) and of raw
\* amplitude i: the curves need not be normalised
ShiftedCurves(d, k, w, stride) ==
    MatrixOf([i \in 1..d |->
                LET lo == Min2(1 + (i - 1) * stride, k - w + 1)
                IN  BoxCurve(k, lo, lo + w - 1, i)], k)

\* simplify_tolerance as a fraction <<numerator, denominator>>; 1/20 is
\* the default 0.05
Tolerances == {<<1, 20>>, <<1, 3>>, <<1, 2>>, <<1, 1>>}

\* wavelengths: None, or a vector, of which only the length is kept
ArgSets(k) ==
    {[simplify_tolerance |-> t, wavelengths |-> None, force_calculate |-> FALSE]
        : t \in Tolerances}
    \cup
    {[simplify_tolerance |-> <<1, 20>>, wavelengths |-> None, force_calculate |-> TRUE],
     [simplify_tolerance |-> <<1, 20>>, wavelengths |-> [len |-> k], force_calculate |-> FALSE],
     [simplify_tolerance |-> <<1, 20>>, wavelengths |-> [len |-> k + 1], force_calculate |-> TRUE]}

WithCurves(m, a) ==
    [curves |-> m, simplify_tolerance |-> a.simplify_tolerance,
     wavelengths |-> a.wavelengths, force_calculate |-> a.force_calculate]

Shapes == {s \in (1..MaxDims) \X (1..MaxRows) : s[1] * s[2] <= MaxCells}

SmallArgs ==
    UNION {
      {WithCurves(ShiftedCurves(s[1], s[2], w, stride), a)
          : w \in 1..s[2], stride \in 0..MaxStride, a \in ArgSets(s[2])}
      : s \in Shapes}

\* the scenario of two length-10 curves pooled with tolerance 1.0
ScenarioArgs ==
    {WithCurves(ShiftedCurves(2, ScenarioRows, w, stride),
                [simplify_tolerance |-> <<1, 1>>, wavelengths |-> None,
                 force_calculate |-> FALSE])
        : w \in 1..ScenarioRows, stride \in 0..MaxStride}

\* A generator curve rising 1, 2, ... over the samples lo..hi.
RampCurve(k, lo, hi) == [r \in 1..k |-> IF lo <= r /\ r <= hi THEN r - lo + 1 ELSE 0]

\* two channels, each any box or ramp: the rows differ from channel to
\* channel and from sample to sample
PoolArgs ==
    UNION {
      LET shapes == {BoxCurve(k, lo, hi, 1) : lo \in 1..k, hi \in 1..k}
                    \cup {RampCurve(k, lo, hi) : lo \in 1..k, hi \in 1..k}
          curve == {c \in shapes : \E r \in 1..k : c[r] > 0}
      IN  {WithCurves(MatrixOf(<<a, b>>, k),
                      [simplify_tolerance |-> t, wavelengths |-> None,
                       force_calculate |-> FALSE])
              : a \in curve, b \in curve, t \in Tolerances}
      : k \in 1..PoolRows}

----------------------------------------------------------------------------
(* ColourSolid.__init__: normalisation and pooling *)

RECURSIVE Gcd(_, _)
Gcd(a, b) == IF b = 0 THEN a ELSE Gcd(b, a % b)

RECURSIVE LcmSeq(_)
LcmSeq(s) ==
    IF s = <<>> THEN 1
    ELSE LET l == LcmSeq(Tail(s)) IN (Head(s) * l) \div Gcd(Head(s), l)

\* the common denominator of the normalised curves
NormUnit(raw, d) == LcmSeq(ColumnSums(raw, d))

\* the curves as given: each column scaled by the same factor, none
\* normalised
Unnormalised(raw, d) ==
    [r \in 1..Len(raw) |-> [i \in 1..d |-> raw[r][i] * LcmSeq(ColumnSums(raw, d))]]

\* normalise each curve to sum to one: entry / column sum, stored as the
\* integer entry * (unit / column sum) over the common denominator unit
Normalise(raw, d) ==
    LET sums == ColumnSums(raw, d)
        u == LcmSeq(sums)
    IN  [r \in 1..Len(raw) |-> [i \in 1..d |-> raw[r][i] * (u \div sums[i])]]

\* all(current_total > simplify_tolerance)
AllAbove(total, tol, u) == \A i \in 1..Len(total) : total[i] * tol[2] > tol[1] * u

\* any(current_total > simplify_tolerance), with v standing for v/u
AnyAbove(total, tol, u) == \E i \in 1..Len(total) : total[i] * tol[2] > tol[1] * u

\* the loop without the append of the final remainder
RECURSIVE PoolDropping(_, _, _, _, _, _)
PoolDropping(base, tol, u, i, current_total, simplified_curves) ==
    IF i >= Len(base) THEN simplified_curves
    ELSE IF AnyAbove(current_total, tol, u)
         THEN PoolDropping(base, tol, u, i + 1, At(base, i),
                           Append(simplified_curves, current_total))
         ELSE PoolDropping(base, tol, u, i + 1, VecAdd(current_total, At(base, i)),
                           simplified_curves)

\* the loop for i in range(1, base_n_entries), from row i on
RECURSIVE PoolFrom(_, _, _, _, _, _)
PoolFrom(base, tol, u, i, current_total, simplified_curves) ==
    IF i >= Len(base) THEN Append(simplified_curves, current_total)
    ELSE IF AnyAbove(current_total, tol, u)
         THEN PoolFrom(base, tol, u, i + 1, At(base, i),
                       Append(simplified_curves, current_total))
         ELSE PoolFrom(base, tol, u, i + 1, VecAdd(current_total, At(base, i)),
                       simplified_curves)

Simplify(base, tol, u) == PoolFrom(base, tol, u, 1, At(base, 0), <<>>)

----------------------------------------------------------------------------
(* scipy.spatial.ConvexHull, the external hull primitive.                  *)
(*                                                                         *)
(* It is modelled by its documented contract, in exact arithmetic and for  *)
(* any dimension: `vertices` are the indices of the extreme points (in     *)
(* counter-clockwise order in 2-D, in input order otherwise), `simplices`  *)
(* are the facets, each non-simplicial facet triangulated (Qhull's option  *)
(* Qt, which scipy always sets), and flat or too few input points raise    *)
(* QhullError.  What the contract leaves to Qhull (the vertex a facet is   *)
(* triangulated from, the order of the facets and of the indices inside a  *)
(* facet, which of two coincident points is the vertex, the first vertex   *)
(* in 2-D) is fixed by qh: the primitive is deterministic.                 *)
(*                                                                         *)
(* Inside this section point indices are 1-based positions of pts; the     *)
(* hull record holds the 0-based values.                                   *)

MinOf(S) == CHOOSE x \in S : \A y \in S : x <= y

\* the ascending sequence of a finite set of integers
RECURSIVE SortedSeq(_)
SortedSeq(S) == IF S = {} THEN <<>> ELSE <<MinOf(S)>> \o SortedSeq(S \ {MinOf(S)})

Reverse(s) == [i \in 1..Len(s) |-> s[Len(s) + 1 - i]]

\* the subsets of S with exactly k elements
RECURSIVE KSubsets(_, _)
KSubsets(S, k) ==
    IF k = 0 THEN {{}}
    ELSE UNION {{T \cup {x} : T \in KSubsets({y \in S : y > x}, k - 1)} : x \in S}

\* the matrix without its first row and its j-th column
Minor(m, j) ==
    [r \in 1..(Len(m) - 1) |->
        [c \in 1..(Len(m) - 1) |-> m[r + 1][IF c < j THEN c ELSE c + 1]]]

\* determinant, by expansion along the first row
RECURSIVE Det(_)
Det(m) ==
    IF Len(m) = 0 THEN 1
    ELSE IF Len(m) = 1 THEN m[1][1]
    ELSE IF Len(m) = 2 THEN m[1][1] * m[2][2] - m[1][2] * m[2][1]
    ELSE SumSeq([j \in 1..Len(m) |->
                   IF m[1][j] = 0 THEN 0
                   ELSE (IF j % 2 = 1 THEN 1 ELSE -1) * m[1][j] * Det(Minor(m, j))])

\* The hyperplane through the points pts[q[1]], ..., pts[q[D]], D the
\* dimension of the points: its origin o and its normal n, the cofactors of
\* the last row of the matrix of Orient.
Hyperplane(pts, q) ==
    LET d == Len(q)
        o == pts[q[1]]
        rows == [i \in 1..(d - 1) |-> [c \in 1..d |-> pts[q[i + 1]][c] - o[c]]]
    IN  [o |-> o,
         n |-> [c \in 1..d |->
                  (IF (d + c) % 2 = 0 THEN 1 ELSE -1)
                  * Det([i \in 1..(d - 1) |->
                           [k \in 1..(d - 1) |-> rows[i][IF k < c THEN k ELSE k + 1]]])]]

\* the side of the hyperplane h the point x is on: positive, negative or 0
Side(h, x) == SumSeq([c \in 1..Len(x) |-> (x[c] - h.o[c]) * h.n[c]])

\* the signed volume of the simplex on the points pts[q[1]], ..., pts[q[D]]
\* and pts[p]
Orient(pts, q, p) == Side(Hyperplane(pts, q), pts[p])

\* A face of the hull is a set F of point indices lying in one affine
\* subspace, with a sequence ext of points outside it that completes its
\* dimension to that of the space: the face has dimension D - Len(ext).
\* A hyperplane through as many points of F as the dimension of the face and
\* through ext spans a facet of the face when F lies on one side of it, and
\* not all on it.
Supporting(pts, F, h) ==
    /\ ~ /\ \E p \in F : Side(h, pts[p]) > 0
         /\ \E p \in F : Side(h, pts[p]) < 0
    /\ \E p \in F : Side(h, pts[p]) # 0

\* the facets of the face F, each the set of all points of F on it
SubFacets(pts, F, ext, dim) ==
    {{p \in F : Side(h, pts[p]) = 0} :
        h \in {g \in {Hyperplane(pts, SortedSeq(T) \o ext) : T \in KSubsets(F, dim)}
                  : Supporting(pts, F, g)}}

\* The extreme points of the face F (of coincident points the first) and a
\* triangulation of F into simplices on them: every simplex joins the apex
\* to a simplex of a facet of F that misses the apex.
RECURSIVE Face(_, _, _, _, _)
Face(pts, F, ext, dim, seed) ==
    IF dim = 0
    THEN [on |-> F, verts |-> {MinOf(F)}, tris |-> {{MinOf(F)}}]
    ELSE LET subs == {Face(pts, G, Append(ext, MinOf(F \ G)), dim - 1, seed)
                         : G \in SubFacets(pts, F, ext, dim)}
             V == UNION {g.verts : g \in subs}
             apex == SortedSeq(V)[1 + (seed % Cardinality(V))]
         IN  [on |-> F, verts |-> V,
              tris |-> UNION {{s \cup {apex} : s \in g.tris}
                                 : g \in {h \in subs : apex \notin h.on}}]

\* lexicographic order on ascending sequences of equal length
RECURSIVE LexLeq(_, _)
LexLeq(a, b) ==
    IF a = <<>> THEN TRUE
    ELSE IF Head(a) # Head(b) THEN Head(a) < Head(b)
    ELSE LexLeq(Tail(a), Tail(b))

\* the sequences of S in lexicographic order
RECURSIVE LexSorted(_)
LexSorted(S) ==
    IF S = {} THEN <<>>
    ELSE LET m == CHOOSE x \in S : \A y \in S : LexLeq(x, y)
         IN  <<m>> \o LexSorted(S \ {m})

\* 2-D: the vertices counter-clockwise from v, n of them
RECURSIVE CounterClockwise(_, _, _, _)
CounterClockwise(pts, V, v, n) ==
    IF n = 0 THEN <<>>
    ELSE LET next == CHOOSE u \in V \ {v} :
                        \A p \in 1..Len(pts) : Orient(pts, <<v, u>>, p) >= 0
         IN  <<v>> \o CounterClockwise(pts, V, next, n - 1)

\* the order of the indices inside the i-th facet, and of the facets
FacetOrder(s, i, seed) == IF (i + seed) % 2 = 0 THEN s ELSE Reverse(s)

QhullFails(pts) ==
    \/ pts = <<>>
    \/ SubFacets(pts, 1..Len(pts), <<>>, Len(pts[1])) = {}

ConvexHull(pts, seed) ==
    LET dim == Len(pts[1])
        all == 1..Len(pts)
        facets == {Face(pts, G, <<MinOf(all \ G)>>, dim - 1, seed)
                      : G \in SubFacets(pts, all, <<>>, dim)}
        tris == UNION {g.tris : g \in facets}
        V == UNION {g.verts : g \in facets}
        vseq == IF dim = 2
                THEN CounterClockwise(pts, V, SortedSeq(V)[1 + (seed % Cardinality(V))],
                                      Cardinality(V))
                ELSE SortedSeq(V)
        sorted == LexSorted({SortedSeq(t) : t \in tris})
        sseq == IF seed = 0 THEN sorted ELSE Reverse(sorted)
    IN  [points |-> pts,
         vertices |-> [i \in 1..Len(vseq) |-> vseq[i] - 1],
         simplices |-> [i \in 1..Len(sseq) |->
                          LET t == FacetOrder(sseq[i], i, seed)
                          IN  [j \in 1..Len(t) |-> t[j] - 1]]]

\* the threads that read hull_data of the one object
Threads == 1..2

\* a thread that has not read hull_data yet
Idle == [pc |-> "idle", saw_none |-> FALSE, local |-> None, returned |-> None]

NoCall == [op |-> "none", dimension |-> 0, raised |-> "", result |-> <<>>]

InitFrom(arguments) ==
    /\ phase = "Uninitialized"
    /\ args \in arguments
    /\ qh \in 0..1
    /\ n_dims = 0
    /\ base_n_entries = 0
    /\ unit = 1
    /\ base_curves = <<>>
    /\ curves = <<>>
    /\ n_points = 0
    /\ _hull_data = None
    /\ calc_runs = 0
    /\ hull_runs = 0
    /\ accesses = 0
    /\ grown = None
    /\ last = NoCall
    /\ threads = [t \in Threads |-> Idle]

Init == InitFrom(SmallArgs \cup ScenarioArgs)

----------------------------------------------------------------------------
(* Hull growth: extend, compress, ColourSolid.calculate *)

\* concatenate((data, data + point), axis=0)
extend(data, point) == data \o [i \in 1..Len(data) |-> VecAdd(data[i], point)]

\* hull.points[hull.vertices, :] of a hull record
HullVertexPoints(hull) ==
    [i \in 1..Len(hull.vertices) |-> At(hull.points, hull.vertices[i])]

\* Returns only the points on the convex hull of the points given
compress(data, seed) == HullVertexPoints(ConvexHull(data, seed))

\* Create the initial parallelepiped: for i in range(self.n_dims)
RECURSIVE SeedFrom(_, _, _, _)
SeedFrom(cv, d, i, solid_data) ==
    IF i >= d THEN [raised |-> "", data |-> solid_data]
    ELSE IF i >= Len(cv) THEN [raised |-> "IndexError", data |-> solid_data]
    ELSE SeedFrom(cv, d, i + 1, extend(solid_data, At(cv, i)))

\* growth that only extends: no pruning between the insertions
RECURSIVE GrowFrom_unpruned(_, _, _, _, _)
GrowFrom_unpruned(cv, seed, i, solid_data, hulls) ==
    IF i >= Len(cv) THEN [raised |-> "", data |-> solid_data, hulls |-> hulls]
    ELSE GrowFrom_unpruned(cv, seed, i + 1, extend(solid_data, At(cv, i)), hulls)

\* Grow the solid, pruning using convex hull: for i in range(n_dims, n_points)
RECURSIVE GrowFrom(_, _, _, _, _)
GrowFrom(cv, seed, i, solid_data, hulls) ==
    IF i >= Len(cv) THEN [raised |-> "", data |-> solid_data, hulls |-> hulls]
    ELSE LET extended == extend(solid_data, At(cv, i))
         IN  IF QhullFails(extended)
             THEN [raised |-> "QhullError", data |-> extended, hulls |-> hulls + 1]
             ELSE GrowFrom(cv, seed, i + 1, compress(extended, seed), hulls + 1)

\* calculate(): what it raises, whether it sets _hull_data and to what, and
\* how many times it invoked the hull primitive
calculate_outcome(d, cv, seed) ==
    IF d = 1 THEN [raised |-> "", set |-> FALSE, hull |-> None, hulls |-> 0]
    ELSE LET seeded == SeedFrom(cv, d, 0, <<[c \in 1..d |-> 0]>>)
         IN  IF seeded.raised # ""
             THEN [raised |-> seeded.raised, set |-> FALSE, hull |-> None, hulls |-> 0]
             ELSE LET growth == GrowFrom(cv, seed, d, seeded.data, 0)
                  IN  IF growth.raised # ""
                      THEN [raised |-> growth.raised, set |-> FALSE, hull |-> None,
                            hulls |-> growth.hulls]
                      ELSE IF QhullFails(growth.data)
                      THEN [raised |-> "QhullError", set |-> FALSE, hull |-> None,
                            hulls |-> growth.hulls + 1]
                      ELSE [raised |-> "", set |-> TRUE,
                            hull |-> ConvexHull(growth.data, seed),
                            hulls |-> growth.hulls + 1]

----------------------------------------------------------------------------
(* ColourSolid.__init__.  The curves, the pooled points and the hull        *)
(* primitive's tie-breaking never change after construction, so what       *)
(* calculate() computes from them is the same whenever it runs: the model  *)
(* evaluates that outcome once, here, and keeps it in `grown`.  It is no   *)
(* state of the program: nothing of it is stored in the object, and        *)
(* _hull_data, calc_runs and hull_runs change only when calculate() runs.  *)

\* A constructor that reads force_calculate and computes the hull when it is
\* set: what laziness rules out.
ConstructEager ==
    /\ phase = "Uninitialized"
    /\ LET raw == args.curves
           k == Len(raw)
           d == Len(raw[1])
           cv == Simplify(Normalise(raw, d), args.simplify_tolerance, NormUnit(raw, d))
           c == calculate_outcome(d, cv, qh)
       IN  IF args.wavelengths # None /\ args.wavelengths.len # k
           THEN /\ phase' = "ConstructFailed"
                /\ last' = [NoCall EXCEPT !.op = "__init__", !.raised = "ValueError"]
                /\ UNCHANGED <<n_dims, base_n_entries, unit, base_curves, curves,
                               n_points, _hull_data, calc_runs, hull_runs, grown>>
           ELSE /\ phase' = "Constructed"
                /\ n_dims' = d
                /\ base_n_entries' = k
                /\ unit' = NormUnit(raw, d)
                /\ base_curves' = Normalise(raw, d)
                /\ curves' = cv
                /\ n_points' = Len(cv)
                /\ _hull_data' = IF args.force_calculate /\ c.set THEN c.hull ELSE None
                /\ calc_runs' = IF args.force_calculate THEN 1 ELSE 0
                /\ hull_runs' = IF args.force_calculate THEN c.hulls ELSE 0
                /\ grown' = c
                /\ last' = [NoCall EXCEPT !.op = "__init__"]
    /\ UNCHANGED <<args, qh, accesses, threads>>

Construct ==
    /\ phase = "Uninitialized"
    /\ LET raw == args.curves
           k == Len(raw)
           d == Len(raw[1])
       IN  IF args.wavelengths # None /\ args.wavelengths.len # k
           THEN /\ phase' = "ConstructFailed"
                /\ last' = [NoCall EXCEPT !.op = "__init__", !.raised = "ValueError"]
                /\ UNCHANGED <<n_dims, base_n_entries, unit, base_curves, curves,
                               n_points, _hull_data, grown>>
           ELSE /\ phase' = "Constructed"
                /\ n_dims' = d
                /\ base_n_entries' = k
                /\ unit' = NormUnit(raw, d)
                /\ base_curves' = Normalise(raw, d)
                /\ curves' = Simplify(Normalise(raw, d), args.simplify_tolerance,
                                      NormUnit(raw, d))
                /\ n_points' = Len(curves')
                /\ _hull_data' = None
                /\ grown' = calculate_outcome(d, curves', qh)
                /\ last' = [NoCall EXCEPT !.op = "__init__"]
    /\ UNCHANGED <<args, qh, calc_runs, hull_runs, accesses, threads>>

----------------------------------------------------------------------------
(* The accessors.  Each yields an outcome: what the call raised ("" when   *)
(* it returned), the value returned, _hull_data after the call, how often  *)
(* calculate() was entered and how often the hull primitive was invoked.   *)

Outcome(raised, value, hull, calc, hulls) ==
    [raised |-> raised, value |-> value, hull |-> hull, calc |-> calc, hulls |-> hulls]

\* calculate() that stores what it has when the hull primitive raises
calculate_partial ==
    IF grown.raised = "" THEN grown
    ELSE [grown EXCEPT !.set = TRUE,
                       !.hull = [points |-> <<>>, vertices |-> <<>>, simplices |-> <<>>]]

\* self.calculate() on the constructed solid
calculate == grown

\* hull_data without the test of _hull_data: every read computes again
hull_data_uncached ==
    LET c == calculate
        after == IF c.set THEN c.hull ELSE _hull_data
    IN  Outcome(c.raised, IF c.raised = "" THEN after ELSE None, after, 1, c.hulls)

\* the property hull_data
hull_data ==
    IF _hull_data = None
    THEN LET c == calculate
             after == IF c.set THEN c.hull ELSE _hull_data
         IN  Outcome(c.raised, IF c.raised = "" THEN after ELSE None, after, 1, c.hulls)
    ELSE Outcome("", _hull_data, _hull_data, 0, 0)

\* points without the case of one dimension
points_of_hull ==
    LET h == hull_data
    IN  IF h.raised # "" THEN h
        ELSE IF h.value = None
        THEN [h EXCEPT !.raised = "AttributeError", !.value = None]
        ELSE [h EXCEPT !.value = HullVertexPoints(h.value)]

\* the property points
points ==
    IF n_dims = 1
    THEN Outcome("", <<<<0>>, <<unit>>>>, _hull_data, 0, 0)
    ELSE LET h == hull_data
         IN  IF h.raised # "" THEN h
             ELSE IF h.value = None
             THEN [h EXCEPT !.raised = "AttributeError", !.value = None]
             ELSE [h EXCEPT !.value = HullVertexPoints(h.value)]

\* for i in range(len(hull.vertices)): points_to_verts[hull.vertices[i]] = i
RECURSIVE AssignVerts(_, _, _)
AssignVerts(points_to_verts, vertices, i) ==
    IF i >= Len(vertices) THEN points_to_verts
    ELSE AssignVerts([points_to_verts EXCEPT ![At(vertices, i) + 1] = i], vertices, i + 1)

\* the facets left in the indices of hull.points
PointsToVertsUnmapped(hull) == [i \in 1..Len(hull.points) |-> i - 1]

\* the map from point index to vertex index, from zeros(len(hull.points))
PointsToVerts(hull) ==
    AssignVerts([i \in 1..Len(hull.points) |-> 0], hull.vertices, 0)

\* points_to_verts[hull.simplices]
Reindexed(hull) ==
    LET points_to_verts == PointsToVerts(hull)
    IN  [f \in 1..Len(hull.simplices) |->
           [j \in 1..Len(hull.simplices[f]) |-> At(points_to_verts, hull.simplices[f][j])]]

\* the property highest_dimension_simplices
highest_dimension_simplices ==
    LET h == hull_data
    IN  IF h.raised # "" THEN h
        ELSE IF h.value = None
        THEN [h EXCEPT !.raised = "AttributeError", !.value = None]
        ELSE [h EXCEPT !.value = Reindexed(h.value)]

----------------------------------------------------------------------------
(* geom.py: simplex helpers *)

\* sorted(s) of a sequence of integers
RECURSIVE InsertInt(_, _)
InsertInt(s, x) ==
    IF s = <<>> THEN <<x>>
    ELSE IF x < Head(s) THEN <<x>> \o s
    ELSE <<Head(s)>> \o InsertInt(Tail(s), x)

RECURSIVE SortInts(_)
SortInts(s) == IF s = <<>> THEN <<>> ELSE InsertInt(SortInts(Tail(s)), Head(s))

\* Key mapping used for removing duplicates: tuple(sorted(simplex))
simplex_duplicate_key(simplex) == SortInts(simplex)

\* Python's order on tuples: a < b
RECURSIVE TupleLess(_, _)
TupleLess(a, b) ==
    IF b = <<>> THEN FALSE
    ELSE IF a = <<>> THEN TRUE
    ELSE IF Head(a) # Head(b) THEN Head(a) < Head(b)
    ELSE TupleLess(Tail(a), Tail(b))

\* a sort by the key that is not stable: entries of equal key come out in
\* the reverse of their input order
SortedByKeyUnstable(simplex_list) ==
    LET n == Len(simplex_list)
        key == [i \in 1..n |-> simplex_duplicate_key(simplex_list[i])] \o <<>>
        place == [i \in 1..n |->
                    1 + Cardinality({j \in 1..n :
                                        \/ TupleLess(key[j], key[i])
                                        \/ key[j] = key[i] /\ j > i})] \o <<>>
    IN  [r \in 1..n |-> simplex_list[CHOOSE i \in 1..n : place[i] = r]]

\* sorted(simplex_list, key=simplex_duplicate_key): ascending in the key,
\* and stable, so entries of equal key keep their input order.  The place
\* of an entry is the number of entries that must come before it.
SortedByKey(simplex_list) ==
    LET n == Len(simplex_list)
        key == [i \in 1..n |-> simplex_duplicate_key(simplex_list[i])] \o <<>>
        place == [i \in 1..n |->
                    1 + Cardinality({j \in 1..n :
                                        \/ TupleLess(key[j], key[i])
                                        \/ key[j] = key[i] /\ j < i})] \o <<>>
    IN  [r \in 1..n |-> simplex_list[CHOOSE i \in 1..n : place[i] = r]]

\* out = [s[0]]; last_key = key(s[0]); for entry in s: append the entry and
\* make its key last_key when its key differs from last_key.  After an
\* entry is visited last_key is that entry's key, whether it was appended
\* or not, so the entries appended are those whose key differs from the
\* key of the entry before them.
Deduplicated(s) ==
    LET n == Len(s)
        key == [i \in 1..n |-> simplex_duplicate_key(s[i])] \o <<>>
        kept == {i \in 1..n : i = 1 \/ key[i] # key[i - 1]}
    IN  [r \in 1..Cardinality(kept) |->
           s[CHOOSE i \in kept : Cardinality({j \in kept : j <= i}) = r]]

\* remove_duplicates: what it raises and returns (s[0] of an empty list is
\* an IndexError)
remove_duplicates(simplex_list) ==
    LET s == SortedByKey(simplex_list)
    IN  IF s = <<>> THEN [raised |-> "IndexError", value |-> <<>>]
        ELSE [raised |-> "", value |-> Deduplicated(s)]

\* as many faces, but none without the last index: the last face skips the
\* first entry again
lower_simplex_order_short(simplex) ==
    [i \in 1..Len(simplex) |->
        LET skip == IF i = Len(simplex) THEN 1 ELSE i
        IN  [j \in 1..(Len(simplex) - 1) |-> simplex[IF j < skip THEN j ELSE j + 1]]]

\* concatenate((simplex[:i], simplex[i+1:])) for i in range(len(simplex))
lower_simplex_order(simplex) ==
    [i \in 1..Len(simplex) |->
        [j \in 1..(Len(simplex) - 1) |-> simplex[IF j < i THEN j ELSE j + 1]]]

\* data = []; for simplex in simplex_list: data += lower_simplex_order(simplex)
\* (every simplex of the list has the same number m of indices, and so
\* yields m entries)
LowerAll(simplex_list) ==
    IF simplex_list = <<>> THEN <<>>
    ELSE LET m == Len(simplex_list[1])
         IN  [x \in 1..(Len(simplex_list) * m) |->
                lower_simplex_order(simplex_list[((x - 1) \div m) + 1])[((x - 1) % m) + 1]]

----------------------------------------------------------------------------
(* ColourSolid._simplices and simplices *)

RECURSIVE _simplices(_)
_simplices(dimension) ==
    IF dimension < -1
    THEN Outcome("ValueError", None, _hull_data, 0, 0)
    ELSE IF dimension = -1
    THEN Outcome("", << <<>> >>, _hull_data, 0, 0)
    ELSE IF dimension = 0
    THEN LET p == points
         IN  IF p.raised # "" THEN p
             ELSE [p EXCEPT !.value = [i \in 1..Len(p.value) |-> <<i - 1>>]]
    ELSE IF dimension >= n_dims
    THEN Outcome("ValueError", None, _hull_data, 0, 0)
    ELSE IF dimension = n_dims - 1
    THEN highest_dimension_simplices
    ELSE LET above == _simplices(dimension + 1)
         IN  IF above.raised # "" THEN above
             ELSE LET r == remove_duplicates(LowerAll(above.value))
                  IN  [above EXCEPT !.raised = r.raised,
                                    !.value = IF r.raised = "" THEN r.value ELSE None]

\* simplices that takes a dimension above the solid's for the highest one
simplices_clamped(dimension) ==
    _simplices(IF dimension >= n_dims THEN n_dims - 1 ELSE dimension)

\* simplices that refuses every negative dimension
simplices_strict(dimension) ==
    IF dimension < 0 THEN Outcome("ValueError", None, _hull_data, 0, 0)
    ELSE _simplices(dimension)

\* simplices(dimension): array(self._simplices(dimension)), the same rows
simplices(dimension) == _simplices(dimension)

----------------------------------------------------------------------------
(* The calls a client may make on a constructed solid *)

\* the dimensions asked of simplices()
Dimensions == (0 - MaxDims)..(MaxDims + 2)

\* whether the call reads the property hull_data: hull_data itself and
\* highest_dimension_simplices always, points unless n_dims is 1, and
\* simplices when _simplices gets to points or highest_dimension_simplices
ReadsHullData(op, dimension) ==
    \/ op \in {"hull_data", "highest_dimension_simplices"}
    \/ op = "points" /\ n_dims # 1
    \/ op = "simplices" /\ \/ dimension = 0 /\ n_dims # 1
                           \/ 0 < dimension /\ dimension < n_dims

Call(op, dimension, o) ==
    /\ phase = "Constructed"
    /\ calc_runs + o.calc <= MaxCalls
    /\ _hull_data' = o.hull
    /\ calc_runs' = calc_runs + o.calc
    /\ hull_runs' = hull_runs + o.hulls
    /\ accesses' = IF ReadsHullData(op, dimension) THEN Min2(accesses + 1, 2)
                   ELSE accesses
    /\ last' = [op |-> op, dimension |-> dimension, raised |-> o.raised,
                result |-> IF o.raised = "" THEN o.value ELSE None]
    /\ UNCHANGED <<phase, args, qh, n_dims, base_n_entries, unit, base_curves,
                   curves, n_points, grown, threads>>

GetHullData == Call("hull_data", 0, hull_data)

GetPoints == Call("points", 0, points)

GetHighestDimensionSimplices ==
    Call("highest_dimension_simplices", 0, highest_dimension_simplices)

GetSimplices == \E dimension \in Dimensions : Call("simplices", dimension, simplices(dimension))

\* an explicit call of calculate(), which recomputes whatever is stored
DoCalculate ==
    LET c == calculate
    IN  Call("calculate", 0,
             Outcome(c.raised, None, IF c.set THEN c.hull ELSE _hull_data, 1, c.hulls))

Next ==
    \/ Construct
    \/ GetHullData
    \/ GetPoints
    \/ GetHighestDimensionSimplices
    \/ GetSimplices
    \/ DoCalculate

Spec == Init /\ [][Next]_vars

\* the constructor alone, on the two-channel curves
PoolInit == InitFrom(PoolArgs)

PoolNext == Construct

PoolSpec == PoolInit /\ [][PoolNext]_vars

----------------------------------------------------------------------------
(* Properties: the life of the hull *)

C2_Memoized ==
    [][/\ _hull_data # None => _hull_data' = _hull_data
       /\ (_hull_data # None /\ last'.op # "calculate")
            => (calc_runs' = calc_runs /\ hull_runs' = hull_runs)
       /\ (_hull_data # None /\ last'.op = "hull_data")
            => (last'.raised = "" /\ last'.result = _hull_data)
       /\ (_hull_data = None /\ ReadsHullData(last'.op, last'.dimension))
            => calc_runs' = calc_runs + 1]_vars

\* a stored hull returned by a read that is not the first, calculate()
\* having run once
C2_Witness ==
    /\ accesses = 2
    /\ calc_runs = 1
    /\ hull_runs >= 1
    /\ _hull_data # None
    /\ last.op = "hull_data"
    /\ last.result = _hull_data

\* C2 as stated: calculate() is run by the first read only, and a stored
\* hull never reverts to None
C2_FirstAccessOnly ==
    [][/\ (accesses >= 1 /\ ReadsHullData(last'.op, last'.dimension))
            => calc_runs' = calc_runs
       /\ _hull_data # None => _hull_data' # None]_vars

----------------------------------------------------------------------------
(* Properties: the simplices *)

\* the indices of a simplex in ascending order (they are distinct)
SortedForm(t) == SortedSeq({t[j] : j \in DOMAIN t})

\* t is u without its i-th index
DropsAt(t, u, i) == t = SubSeq(u, 1, i - 1) \o SubSeq(u, i + 1, Len(u))

\* a precedes b in the order of tuples of equal length
Precedes(a, b) ==
    \E i \in 1..Len(a) : a[i] < b[i] /\ \A j \in 1..(i - 1) : a[j] = b[j]

\* a call of simplices(dimension) that returned
Returned(dimension) ==
    /\ phase = "Constructed"
    /\ last.op = "simplices"
    /\ last.dimension = dimension
    /\ last.raised = ""

\* C3: For D >= 2, simplices(D-1) (and highest_dimension_simplices) is the
\* facet list of the stored hull with every index of hull.points replaced by
\* the index of the same coordinate in points: as many facets, each of as
\* many indices, and points[result[f][j]] = hull.points[hull.simplices[f][j]].
C3_TopSimplices ==
    (/\ phase = "Constructed"
     /\ n_dims >= 2
     /\ last.raised = ""
     /\ \/ last.op = "highest_dimension_simplices"
        \/ last.op = "simplices" /\ last.dimension = n_dims - 1)
    => /\ _hull_data # None
       /\ LET hull == _hull_data
              verts == HullVertexPoints(hull)
              r == last.result
          IN  /\ Len(r) = Len(hull.simplices)
              /\ \A f \in 1..Len(r) :
                    /\ Len(r[f]) = n_dims
                    /\ Len(hull.simplices[f]) = n_dims
                    /\ \A j \in 1..n_dims :
                          /\ r[f][j] \in 0..(Len(verts) - 1)
                          /\ At(verts, r[f][j]) = At(hull.points, hull.simplices[f][j])

\* the facets of a 3-D solid returned by simplices(2)
C3_Witness ==
    /\ Returned(2)
    /\ n_dims = 3
    /\ Len(last.result) >= 12

\* C4: For 0 <= k < D-1, simplices(k) holds exactly the faces of the
\* simplices of simplices(k+1): every tuple of simplices(k) is a tuple of
\* simplices(k+1) without one of its indices, and every tuple of
\* simplices(k+1) without one of its indices has its sorted form among the
\* sorted forms of simplices(k).
C4_FacesOfAbove ==
    \A k \in 0..(n_dims - 2) :
        Returned(k) =>
            LET above == simplices(k + 1)
                r == last.result
            IN  /\ above.raised = ""
                /\ \A x \in 1..Len(r) :
                      \E y \in 1..Len(above.value) :
                          \E i \in 1..(k + 2) : DropsAt(r[x], above.value[y], i)
                /\ \A y \in 1..Len(above.value) :
                      \A i \in 1..(k + 2) :
                          \E x \in 1..Len(r) :
                              /\ Len(r[x]) = k + 1
                              /\ DropsAt(SortedForm(r[x]), SortedForm(above.value[y]), i)

\* the edges of a 3-D solid, fewer than the three sides of each of its
\* triangles
C4_Witness ==
    /\ Returned(1)
    /\ n_dims = 3
    /\ Len(last.result) >= 18
    /\ Len(last.result) < 3 * Len(simplices(2).value)

\* the faces handed to remove_duplicates by simplices(k)
Incoming(k) == LowerAll(simplices(k + 1).value)

\* C5: For 0 < k < D-1 no two tuples of simplices(k) have the same sorted
\* form; of the incoming faces of one sorted form exactly the first in
\* input order is returned, nothing else is, and the tuples returned are in
\* ascending order of their sorted forms.
C5_Deduplicated ==
    \A k \in 1..(n_dims - 2) :
        Returned(k) =>
            LET incoming == Incoming(k)
                r == last.result
                first == {i \in 1..Len(incoming) :
                            \A j \in 1..(i - 1) :
                                SortedForm(incoming[j]) # SortedForm(incoming[i])}
            IN  /\ \A x, y \in 1..Len(r) :
                      x # y => SortedForm(r[x]) # SortedForm(r[y])
                /\ Len(r) = Cardinality(first)
                /\ \A i \in first : \E x \in 1..Len(r) : r[x] = incoming[i]
                /\ \A x \in 1..(Len(r) - 1) :
                      Precedes(SortedForm(r[x]), SortedForm(r[x + 1]))

\* edges returned where two incoming faces were the same edge with its
\* indices in different orders
C5_Witness ==
    /\ Returned(1)
    /\ n_dims = 3
    /\ \E i, j \in 1..Len(Incoming(1)) :
          /\ i < j
          /\ Incoming(1)[i] # Incoming(1)[j]
          /\ SortedForm(Incoming(1)[i]) = SortedForm(Incoming(1)[j])

\* C6: simplices(dimension) with dimension >= D raises ValueError, and the
\* call neither enters calculate() nor changes _hull_data.
C6_TooHigh ==
    [][(/\ phase' = "Constructed"
        /\ last'.op = "simplices"
        /\ last'.dimension >= n_dims')
       => /\ last'.raised = "ValueError"
          /\ _hull_data' = _hull_data
          /\ calc_runs' = calc_runs
          /\ hull_runs' = hull_runs]_vars

\* simplices(5) refused on a 3-D solid, nothing computed
C6_Witness ==
    /\ phase = "Constructed"
    /\ n_dims = 3
    /\ last.op = "simplices"
    /\ last.dimension = 5
    /\ last.raised = "ValueError"
    /\ grown.set
    /\ _hull_data = None
    /\ calc_runs = 0

\* C7: simplices(dimension) raises ValueError for every dimension < -1; for
\* dimension -1 it raises nothing and returns a list of one empty simplex.
C7_Negative ==
    (phase = "Constructed" /\ last.op = "simplices")
    => /\ last.dimension < -1 => (last.raised = "ValueError" /\ last.result = None)
       /\ last.dimension = -1 => (last.raised = "" /\ last.result = << <<>> >>)

\* simplices(-1) returned
C7_Witness ==
    /\ Returned(-1)
    /\ last.result = << <<>> >>
    /\ n_dims >= 2

\* C7 as stated: every negative dimension is refused
C7_EveryNegativeRaises ==
    (phase = "Constructed" /\ last.op = "simplices" /\ last.dimension < 0)
    => last.raised = "ValueError"

----------------------------------------------------------------------------
(* Properties: pooling *)

\* the sum of the rows lo..hi of base_curves
RowSum(lo, hi) == ColumnSums(SubSeq(base_curves, lo, hi), n_dims)

\* the total is above the tolerance in at least one channel
Exceeds(total) ==
    \E c \in 1..n_dims :
        total[c] * args.simplify_tolerance[2] > args.simplify_tolerance[1] * unit

\* C8: Pooling is sum-preserving: in every channel the pooled points
\* (curves) sum to what the normalised rows (base_curves) sum to, which is
\* one, and n_points counts the pooled points.
C8_SumPreserved ==
    phase = "Constructed" =>
        /\ n_points = Len(curves)
        /\ \A c \in 1..n_dims :
              /\ SumSeq([x \in 1..Len(curves) |-> curves[x][c]])
                   = SumSeq([r \in 1..Len(base_curves) |-> base_curves[r][c]])
              /\ SumSeq([x \in 1..Len(curves) |-> curves[x][c]]) = unit

\* rows pooled, several into one point, into more than one point
C8_Witness ==
    /\ phase = "Constructed"
    /\ n_dims = 2
    /\ n_points >= 2
    /\ n_points < base_n_entries
    /\ curves[1] # base_curves[1]

\* C9: The pooled points are the sums of consecutive runs of rows that
\* partition the rows in their order: `ends` holds the last row of each
\* run.  No proper prefix of a run is above the tolerance in any channel,
\* every run but the last is above it in some channel, and the last run
\* ends with the last row, above the tolerance or not.
C9_SequentialRuns ==
    phase = "Constructed" =>
        \E B \in SUBSET (1..(base_n_entries - 1)) :
            LET ends == SortedSeq(B \cup {base_n_entries})
                start(x) == IF x = 1 THEN 1 ELSE ends[x - 1] + 1
            IN  /\ Len(curves) = Len(ends)
                /\ \A x \in 1..Len(ends) :
                      /\ curves[x] = RowSum(start(x), ends[x])
                      /\ x < Len(ends) => Exceeds(curves[x])
                      /\ \A e \in start(x)..(ends[x] - 1) :
                            ~Exceeds(RowSum(start(x), e))

\* a run of several rows committed on one channel alone, and a last point
\* under the tolerance
C9_Witness ==
    /\ phase = "Constructed"
    /\ n_dims = 2
    /\ n_points >= 2
    /\ curves[1] # base_curves[1]
    /\ Exceeds(curves[1])
    /\ \E c \in 1..n_dims :
          curves[1][c] * args.simplify_tolerance[2] <= args.simplify_tolerance[1] * unit
    /\ ~Exceeds(curves[n_points])

\* C10 as stated: two curves of ScenarioRows samples pooled with tolerance
\* 1.0 give two pooled points, and hull_data returns their hull
C10_ScenarioTwoPoints ==
    (/\ phase = "Constructed"
     /\ n_dims = 2
     /\ base_n_entries = ScenarioRows
     /\ args.simplify_tolerance = <<1, 1>>
     /\ last.op = "hull_data")
    => /\ n_points = 2
       /\ last.raised = ""
       /\ _hull_data # None

----------------------------------------------------------------------------
(* Properties: failed hulls and 1-D solids *)

C19_OneDimension ==
    [][(phase' = "Constructed" /\ n_dims' = 1)
       => /\ hull_runs' = 0
          /\ _hull_data' = None
          /\ last'.op = "points"
               => /\ last'.raised = ""
                  /\ last'.result = << <<0>>, <<unit'>> >>
                  /\ calc_runs' = calc_runs
          /\ (last'.op = "simplices" /\ last'.dimension = 0)
               => /\ last'.raised = ""
                  /\ last'.result = << <<0>>, <<1>> >>
                  /\ calc_runs' = calc_runs]_vars

\* simplices(0) returned on a 1-D solid after calculate() had been entered
C19_Witness ==
    /\ n_dims = 1
    /\ Returned(0)
    /\ last.result = << <<0>>, <<1>> >>
    /\ calc_runs >= 1
    /\ hull_runs = 0
    /\ _hull_data = None

\* C20 as stated: on a 1-D solid highest_dimension_simplices returns an
\* empty array
C20_OneDimensionNoFacets ==
    (phase = "Constructed" /\ n_dims = 1 /\ last.op = "highest_dimension_simplices")
    => (last.raised = "" /\ last.result = <<>>)

----------------------------------------------------------------------------
(* geom.implicit_line.  An array argument is a record of its number of     *)
(* axes and, when that is 1, its entries.  The code divides by r[pivot];   *)
(* the model keeps A and b as integers over that common denominator `den`: *)
(* the equation A x = b of the code is A x = b of the integers.            *)

\* largest dimension of the points p and q
LineDims == 3
\* the coordinates of q and of the points x tried are 0..LineMax
LineMax == 2

Vector(v) == [ndim |-> 1, v |-> v]

\* p with coordinates 0 and 1, q with coordinates 0..LineMax: q - p has
\* entries of either sign, zero entries (axis-aligned lines) and ties of
\* magnitude; and arguments of the wrong shape
LineArgs ==
    UNION {{[p |-> Vector(a), q |-> Vector(b)]
               : a \in [1..d -> 0..1], b \in [1..d -> 0..LineMax]}
           : d \in 2..LineDims}
    \cup {[p |-> [ndim |-> 2, v |-> <<>>], q |-> Vector(<<0, 1>>)],
          [p |-> Vector(<<0, 1>>), q |-> [ndim |-> 2, v |-> <<>>]],
          [p |-> Vector(<<0, 1>>), q |-> Vector(<<0, 1, 1>>)]}

Abs(x) == IF x < 0 THEN 0 - x ELSE x

\* argmax(r) of signed entries: the first index of the largest entry
ArgMaxSigned(r) ==
    CHOOSE i \in 1..Len(r) :
        /\ \A j \in 1..Len(r) : r[j] <= r[i]
        /\ \A j \in 1..(i - 1) : r[j] < r[i]

\* argmax(abs(r)): the first index of the largest magnitude (1-based)
ArgMaxAbs(r) ==
    CHOOSE i \in 1..Len(r) :
        /\ \A j \in 1..Len(r) : Abs(r[j]) <= Abs(r[i])
        /\ \A j \in 1..(i - 1) : Abs(r[j]) < Abs(r[i])

\* concatenate((m[:pivot], m[pivot+1:])): m without its pivot-th entry
WithoutEntry(m, pivot) ==
    [i \in 1..(Len(m) - 1) |-> m[IF i < pivot THEN i ELSE i + 1]]

implicit_line(p, q) ==
    IF p.ndim # 1 THEN [raised |-> "ValueError: p should be a vector", value |-> None]
    ELSE IF q.ndim # 1 THEN [raised |-> "ValueError: q should be a vector", value |-> None]
    ELSE IF Len(q.v) # Len(p.v)
    THEN [raised |-> "ValueError: p and q should have the same size", value |-> None]
    ELSE LET n == Len(p.v)
             r == [i \in 1..n |-> q.v[i] - p.v[i]]
             pivot == ArgMaxAbs(r)
             den == r[pivot]
             \* eye(n_dims) with A[:, pivot] = -r / r[pivot], times den
             A == [i \in 1..n |->
                     [j \in 1..n |-> IF j = pivot THEN 0 - r[i]
                                     ELSE IF j = i THEN den ELSE 0]]
             \* p - ((p[pivot] / r[pivot]) * r), times den
             b == [i \in 1..n |-> p.v[i] * den - p.v[pivot] * r[i]]
         IN  IF den = 0
             THEN [raised |-> "ValueError: p and q do not describe a line, because p=q.",
                   value |-> None]
             ELSE [raised |-> "",
                   value |-> [A |-> WithoutEntry(A, pivot), b |-> WithoutEntry(b, pivot),
                              den |-> den]]

CallImplicitLine ==
    /\ phase = "Uninitialized"
    /\ last = NoCall
    /\ LET o == implicit_line(args.p, args.q)
       IN  last' = [op |-> "implicit_line", dimension |-> 0, raised |-> o.raised,
                    result |-> o.value]
    /\ UNCHANGED <<phase, args, qh, n_dims, base_n_entries, unit, base_curves, curves,
                   n_points, _hull_data, calc_runs, hull_runs, accesses, grown, threads>>

LineInit == InitFrom(LineArgs)

LineNext == CallImplicitLine

LineSpec == LineInit /\ [][LineNext]_vars

\* x is on the line through p and q: x - p and q - p are parallel
OnLine(a, b, x) ==
    \A i, j \in 1..Len(a) : (x[i] - a[i]) * (b[j] - a[j]) = (x[j] - a[j]) * (b[i] - a[i])

\* A x = b
Satisfies(line, x) ==
    \A k \in 1..Len(line.A) :
        SumSeq([j \in 1..Len(x) |-> line.A[k][j] * x[j]]) = line.b[k]

\* C14: For p # q of equal length D, implicit_line(p, q) returns A with D-1
\* rows and b with D-1 entries, the row dropped being one of a component of
\* q - p of the largest magnitude; A p = b, A q = b, and a point x satisfies
\* A x = b exactly when it is on the line through p and q.
C14_ImplicitLine ==
    (/\ last.op = "implicit_line"
     /\ args.p.ndim = 1 /\ args.q.ndim = 1
     /\ Len(args.p.v) = Len(args.q.v)
     /\ args.p.v # args.q.v)
    => LET a == args.p.v
           b == args.q.v
           d == Len(a)
           line == last.result
       IN  /\ last.raised = ""
           /\ Len(line.A) = d - 1
           /\ Len(line.b) = d - 1
           /\ \A k \in 1..(d - 1) : Len(line.A[k]) = d
           /\ \E m \in 1..d :
                 /\ \A j \in 1..d : Abs(b[j] - a[j]) <= Abs(b[m] - a[m])
                 /\ \A k \in 1..(d - 1) :
                       line.A[k][IF k < m THEN k ELSE k + 1] = line.den
           /\ Satisfies(line, a)
           /\ Satisfies(line, b)
           /\ \A x \in [1..d -> 0..LineMax] : Satisfies(line, x) <=> OnLine(a, b, x)

\* a line along an axis, in the direction of decreasing coordinate, in the
\* largest dimension
C14_Witness ==
    /\ last.op = "implicit_line"
    /\ last.raised = ""
    /\ Len(args.p.v) = LineDims
    /\ args.p.v[1] = 1 /\ args.q.v[1] = 0
    /\ \A j \in 2..LineDims : args.p.v[j] = args.q.v[j]

----------------------------------------------------------------------------
(* slicer.slice_solid.  The scalar coordinate of a point is                *)
(* dot(point, dir) / sum(dir); the model keeps its numerator dot(point,    *)
(* dir) and compares it with z * sum(dir), the way round the sign of       *)
(* sum(dir) asks for.  A crossing point is kept as integer entries `num`   *)
(* over the denominator `den`.                                             *)

\* the coordinates of the points and the offsets z are 0..SliceMax
SliceMax == 1

\* dir: the default, one along all axes, one whose entries sum to less than
\* zero and one whose entries sum to zero
Directions == {<<0, 0, 1>>, <<1, 1, 1>>, <<0, 1, -2>>, <<2, -1, -1>>}

\* two points, the edge between them listed from either end or from both;
\* three points with two or three of the edges between them; and two
\* opposite points off the positive octant
SliceArgs ==
    {[points |-> <<a, b>>, edges |-> e, z |-> z, dir |-> dir]
        : a \in [1..3 -> 0..SliceMax], b \in [1..3 -> 0..SliceMax],
          e \in {<< <<0, 1>> >>, << <<1, 0>> >>, << <<0, 1>>, <<1, 0>> >>},
          z \in 0..SliceMax, dir \in Directions}
    \cup {[points |-> <<a, b, c>>, edges |-> e, z |-> z, dir |-> dir]
        : a \in [1..3 -> 0..SliceMax], b \in [1..3 -> {0, SliceMax}],
          c \in {[i \in 1..3 |-> 0], [i \in 1..3 |-> SliceMax]},
          e \in {<< <<0, 1>>, <<1, 2>> >>, << <<1, 2>>, <<0, 1>> >>,
                 << <<2, 0>>, <<0, 1>>, <<1, 2>> >>},
          z \in 0..SliceMax, dir \in Directions}
    \cup {[points |-> <<a, [c \in 1..3 |-> 0 - a[c]]>>, edges |-> e, z |-> z,
           dir |-> dir]
        : a \in [1..3 -> {0 - SliceMax, SliceMax}],
          e \in {<< <<0, 1>> >>, << <<1, 0>> >>},
          z \in 0..SliceMax, dir \in Directions}

Sgn(x) == IF x < 0 THEN 0 - 1 ELSE IF x > 0 THEN 1 ELSE 0

Dot(a, b) == SumSeq([i \in 1..Len(a) |-> a[i] * b[i]])

\* zs[i] < z and zs[i] > z, for zs[i] = numerator / total
Below(numerator, total, z) ==
    IF total > 0 THEN numerator < z * total ELSE numerator > z * total

Above(numerator, total, z) ==
    IF total > 0 THEN numerator > z * total ELSE numerator < z * total

\* crosser: if z1 < z: if z < z2: True; else: if z > z2: True
Crosser(n1, n2, total, z) ==
    IF Below(n1, total, z) THEN Above(n2, total, z) ELSE Below(n2, total, z)

\* zs[i] when sum(dir) is 0.  dir / sum(dir) is then a numpy division by
\* zero: inf or -inf where dir is positive or negative, nan where it is 0.
\* A term of the dot product is nan when either factor is nan or the
\* coordinate is 0, else inf or -inf; the sum is nan when a term is nan or
\* both signs occur.
Unbounded(pt, dir) ==
    LET terms == {Sgn(pt[c]) * Sgn(dir[c]) : c \in 1..Len(pt)}
    IN  IF terms = {1} THEN "inf" ELSE IF terms = {0 - 1} THEN "-inf" ELSE "nan"

\* crosser when the scalar coordinates are not finite: every comparison
\* with nan is False
CrosserUnbounded(z1, z2) ==
    IF z1 = "-inf" THEN z2 = "inf" ELSE z2 = "-inf"

\* whether the loop treats the edge as crossing
Crossing(pts, edge, z, dir) ==
    IF SumSeq(dir) = 0
    THEN CrosserUnbounded(Unbounded(At(pts, edge[1]), dir),
                          Unbounded(At(pts, edge[2]), dir))
    ELSE Crosser(Dot(At(pts, edge[1]), dir), Dot(At(pts, edge[2]), dir),
                 SumSeq(dir), z)

\* the body of the loop for one edge: the points appended to output_data.
\* Between infinite scalar coordinates f is inf / inf, which is nan, and so
\* is every entry of the point: the model writes it as 0 over 0.
SliceEdge(pts, edge, z, dir) ==
    LET total == SumSeq(dir)
        i0 == edge[1]
        i1 == edge[2]
        n1 == Dot(At(pts, i0), dir)
        n2 == Dot(At(pts, i1), dir)
        \* f = abs(z-z1)/abs(z2-z1)
        fnum == Abs(z * total - n1)
        fden == Abs(n2 - n1)
    IN  IF ~Crossing(pts, edge, z, dir) THEN <<>>
        ELSE IF total = 0
        THEN <<[num |-> [c \in 1..Len(At(pts, i0)) |-> 0], den |-> 0]>>
        ELSE <<[num |-> [c \in 1..Len(At(pts, i0)) |->
                           fnum * At(pts, i1)[c] + (fden - fnum) * At(pts, i0)[c]],
                den |-> fden]>>

RECURSIVE SliceFrom(_, _, _, _, _, _)
SliceFrom(pts, edges, z, dir, i, output_data) ==
    IF i >= Len(edges) THEN output_data
    ELSE SliceFrom(pts, edges, z, dir, i + 1,
                   output_data \o SliceEdge(pts, At(edges, i), z, dir))

slice_solid(pts, edges, z, dir) == SliceFrom(pts, edges, z, dir, 0, <<>>)

CallSliceSolid ==
    /\ phase = "Uninitialized"
    /\ last = NoCall
    /\ last' = [op |-> "slice_solid", dimension |-> 0, raised |-> "",
                result |-> slice_solid(args.points, args.edges, args.z, args.dir)]
    /\ UNCHANGED <<phase, args, qh, n_dims, base_n_entries, unit, base_curves, curves,
                   n_points, _hull_data, calc_runs, hull_runs, accesses, grown, threads>>

SliceInit == InitFrom(SliceArgs)

SliceNext == CallSliceSolid

SliceSpec == SliceInit /\ [][SliceNext]_vars

\* the scalar coordinates of the ends of the edge are strictly on opposite
\* sides of z
Straddles(edge) ==
    LET total == SumSeq(args.dir)
        n1 == Dot(At(args.points, edge[1]), args.dir)
        n2 == Dot(At(args.points, edge[2]), args.dir)
    IN  \/ Below(n1, total, args.z) /\ Above(n2, total, args.z)
        \/ Below(n2, total, args.z) /\ Above(n1, total, args.z)

\* C15 as stated: slice_solid emits one point for each edge whose ends are
\* strictly on opposite sides of z, and none for any other edge
C15_StrictCrossing ==
    last.op = "slice_solid" =>
        Len(last.result)
          = Cardinality({i \in 1..Len(args.edges) : Straddles(args.edges[i])})

----------------------------------------------------------------------------
(* scipy.optimize.linprog, by its contract.  linprog(c, A_ub, b_ub, A_eq,  *)
(* b_eq) minimises c.x under A_ub x <= b_ub and A_eq x = b_eq and returns   *)
(* a status (0 success, 1 iteration limit, 2 infeasible, 3 unbounded, 4    *)
(* numerical difficulties) and, on success, an optimal x.  The bounds the  *)
(* solid hands it are 0 <= x <= 1, so the feasible set is a polytope and   *)
(* the optimum is attained at a vertex: a point with at most as many       *)
(* entries strictly between 0 and 1 as there are equations, those entries  *)
(* being fixed by the equations.  Of the optimal points the model returns  *)
(* the optimal vertices, exactly: a point is integer entries `num` over a  *)
(* positive denominator `den`.  Whether the solver succeeds is its own     *)
(* choice: any status may come back for any problem.                       *)

\* the integer vector v divided by the greatest common divisor of its entries
RECURSIVE GcdSeq(_)
GcdSeq(v) == IF v = <<>> THEN 0 ELSE Gcd(Abs(Head(v)), GcdSeq(Tail(v)))

Primitive(v) ==
    LET g == GcdSeq(v) IN IF g = 0 THEN v ELSE [i \in 1..Len(v) |-> v[i] \div g]

\* the entries of m in the rows rs and the columns cs (ascending sequences)
SubMatrix(m, rs, cs) ==
    [i \in 1..Len(rs) |-> [j \in 1..Len(cs) |-> m[rs[i]][cs[j]]]]

\* the square matrix m with its j-th column replaced by the vector v
WithColumn(m, j, v) ==
    [i \in 1..Len(m) |-> [c \in 1..Len(m) |-> IF c = j THEN v[i] ELSE m[i][c]]]

\* The point with the entries outside F at the bounds y and the entries in
\* F solved (Cramer's rule) from the equations R of A_eq x = b_eq.
BasicPoint(A_eq, b_eq, n, F, R, y) ==
    LET fs == SortedSeq(F)
        rs == SortedSeq(R)
        B == SubMatrix(A_eq, rs, fs)
        dt == Det(B)
        rhs == [i \in 1..Len(rs) |->
                  b_eq[rs[i]]
                  - SumSeq([k \in 1..n |-> IF k \in F THEN 0 ELSE A_eq[rs[i]][k] * y[k]])]
        place(k) == CHOOSE j \in 1..Len(fs) : fs[j] = k
        num == [k \in 1..n |->
                  IF k \in F
                  THEN Sgn(dt) * Det(WithColumn(B, place(k), rhs))
                  ELSE y[k] * Abs(dt)]
    IN  IF dt = 0 THEN [ok |-> FALSE, num |-> <<>>, den |-> 1]
        ELSE [ok |-> /\ \A k \in F : 0 <= num[k] /\ num[k] <= Abs(dt)
                     /\ \A i \in 1..Len(A_eq) :
                           SumSeq([k \in 1..n |-> A_eq[i][k] * num[k]]) = b_eq[i] * Abs(dt),
              num |-> num, den |-> Abs(dt)]

\* the vertices of {x : 0 <= x <= 1, A_eq x = b_eq}, x of n entries
Vertices(A_eq, b_eq, n) ==
    LET free == UNION {KSubsets(1..n, m) : m \in 0..Min2(n, Len(A_eq))}
        all == UNION {UNION {{BasicPoint(A_eq, b_eq, n, F, R, y)
                                : y \in [(1..n) \ F -> 0..1]}
                             : R \in KSubsets(1..Len(A_eq), Cardinality(F))}
                      : F \in free}
    IN  {LET low == Primitive(Append(v.num, v.den))
         IN  [num |-> SubSeq(low, 1, n), den |-> low[n + 1]]
            : v \in {w \in all : w.ok}}

\* what linprog may return for: minimise c.x, 0 <= x <= 1, A_eq x = b_eq
linprog(c, A_eq, b_eq) ==
    LET n == Len(c)
        V == Vertices(A_eq, b_eq, n)
        cost(v) == SumSeq([k \in 1..n |-> c[k] * v.num[k]])
        best == {v \in V : \A w \in V : cost(v) * w.den <= cost(w) * v.den}
    IN  {[success |-> TRUE, status |-> 0, x |-> v] : v \in best}
        \cup {[success |-> FALSE, status |-> st, x |-> None] : st \in 1..4}

----------------------------------------------------------------------------
(* The optimisation surface of ColourSolid: colour, boundary_spectrum,     *)
(* boundary_colour, boundary_distance, vividness_from_colour, vividness.   *)
(*                                                                         *)
(* An array is its shape and its entries, row-major, as integers `num`     *)
(* over one positive denominator `den`: the arithmetic is exact.  A        *)
(* distance is kept as its square (sqrt is one-to-one on what it is        *)
(* applied to) and the vividness d1 / d2 as the fraction d1^2 / d2^2.      *)
(* Each method yields what it raised ("" when it returned), its value, and *)
(* how often it invoked linprog (lp) and implicit_line (lines).            *)

OptRows == 3

Array(shape, num, den) == [shape |-> shape, num |-> num, den |-> den]

Opt(raised, value, lp, lines) ==
    [raised |-> raised, value |-> value, lp |-> lp, lines |-> lines]

\* num / den in lowest terms
Lowest(num, den) ==
    LET g == Gcd(Abs(num), den) IN [num |-> num \div g, den |-> den \div g]

opt_status_lookup ==
    [st \in 0..3 |->
        CASE st = 0 -> "Optimization terminated successfully"
          [] st = 1 -> "Iteration limit reached"
          [] st = 2 -> "Problem appears to be infeasible"
          [] st = 3 -> "Problem appears to be unbounded"]

\* numpy.interp(x, xp, fp) for x = 1..k and xp = 1..m: fp where x is inside
\* xp, the last entry of fp to the right of it
interp(k, m, fp) == [i \in 1..k |-> fp[Min2(i, m)]]

\* dot(r, base_curves[:, i]) for each channel i
Catches(base, u, r, den) ==
    Array(<<Len(base[1])>>,
          [i \in 1..Len(base[1]) |-> SumSeq([n \in 1..Len(base) |-> r[n] * base[n][i]])],
          den * u)

\* self.colour(reflectance, wavelengths); a wavelengths argument is None or
\* the vector 1..len, as are the wavelengths of the solid
colour(reflectance, wavelengths) ==
    IF wavelengths = None /\ reflectance.shape[1] # base_n_entries
    THEN [raised |-> "ValueError: Reflectance should have the same number of entries as the curves",
          value |-> None]
    ELSE IF wavelengths # None /\ args.wavelengths = None
    THEN [raised |-> "ValueError: No _wavelengths in Solid._wavelengths to interpolate with",
          value |-> None]
    ELSE IF wavelengths # None /\ wavelengths.len # reflectance.shape[1]
    THEN [raised |-> "ValueError: fp and xp are not of the same length.", value |-> None]
    ELSE LET r == IF wavelengths = None THEN reflectance.num
                  ELSE interp(base_n_entries, wavelengths.len, reflectance.num)
         IN  [raised |-> "", value |-> Catches(base_curves, unit, r, reflectance.den)]

\* sum(abs(colour - 0.5)) == 0
IsCentre(c) == \A i \in 1..Len(c.num) : 2 * c.num[i] = c.den

\* sum((colour - 0.5)**2)
SquaredDistance(c) ==
    Lowest(SumSeq([i \in 1..Len(c.num) |-> (2 * c.num[i] - c.den) * (2 * c.num[i] - c.den)]),
           4 * c.den * c.den)

\* implicit_line(0.5 * ones(self.n_dims), colour) for a solid of d
\* channels, in coordinates scaled by 2 * colour.den
CentreLine(d, c) ==
    implicit_line(Vector([i \in 1..d |-> c.den]),
                  Vector([i \in 1..Len(c.num) |-> 2 * c.num[i]]))

\* The arguments boundary_spectrum hands to linprog for the normalised
\* curves base over the denominator u, the cost and each equation scaled to
\* integers without a common divisor: c = -dot(base_curves, colour - 0.5),
\* A_eq = dot(A, transpose(base_curves)) and b_eq = b for the line A y = b;
\* A_ub and b_ub are the box 0 <= x <= 1.
lp_problem(base, u, c) ==
    LET k == Len(base)
        d == Len(base[1])
        line == CentreLine(d, c).value
        cost == [n \in 1..k |->
                   0 - SumSeq([i \in 1..d |-> base[n][i] * (2 * c.num[i] - c.den)])]
        \* the equation r with its right-hand side as the last entry
        equation(r) ==
            Primitive([n \in 1..(k + 1) |->
                         IF n > k THEN u * line.b[r]
                         ELSE 2 * c.den * SumSeq([j \in 1..d |->
                                                    line.A[r][j] * base[n][j]])])
    IN  [c |-> Primitive(cost),
         \* concatenate((eye(k), -eye(k))) and concatenate((ones(k), zeros(k)))
         A_ub |-> [r \in 1..(2 * k) |->
                     [n \in 1..k |-> IF r = n THEN 1 ELSE IF r = k + n THEN 0 - 1 ELSE 0]],
         b_ub |-> [r \in 1..(2 * k) |-> IF r <= k THEN 1 ELSE 0],
         A_eq |-> [r \in 1..Len(line.A) |-> SubSeq(equation(r), 1, k)],
         b_eq |-> [r \in 1..Len(line.b) |-> equation(r)[k + 1]]]

\* the colour gets as far as the call of linprog, in a solid of d channels
ReachesSolver(d, c) ==
    /\ ~IsCentre(c)
    /\ Len(c.shape) = 1
    /\ d = c.shape[1]
    /\ CentreLine(d, c).raised = ""

NoAnswer == [success |-> FALSE, status |-> 0 - 1, x |-> None]

\* what the solver may answer during a call with this colour
Solutions(base, u, c) ==
    IF ReachesSolver(Len(base[1]), c)
    THEN LET lp == lp_problem(base, u, c) IN linprog(lp.c, lp.A_eq, lp.b_eq)
    ELSE {NoAnswer}

\* boundary_spectrum without the test for the centre
boundary_spectrum_unguarded(c, result) ==
    IF Len(c.shape) # 1
    THEN Opt("ValueError: Expected parameter 'colour' to be a 1D array.", None, 0, 0)
    ELSE IF n_dims # c.shape[1]
    THEN Opt("ValueError: Expected parameter 'colour' to have n_dims entries", None, 0, 0)
    ELSE IF CentreLine(n_dims, c).raised # ""
    THEN Opt(CentreLine(n_dims, c).raised, None, 0, 1)
    ELSE IF result.success
    THEN Opt("", Array(<<base_n_entries>>, result.x.num, result.x.den), 1, 1)
    ELSE Opt("Exception: Optimisation failed", None, 1, 1)

\* boundary_spectrum that asks the solver again when it fails
boundary_spectrum_retrying(c, result) ==
    IF IsCentre(c)
    THEN Opt("ValueError: Cannot get explicit boundary spectrum for centre of solid.",
             None, 0, 0)
    ELSE IF Len(c.shape) # 1 \/ n_dims # c.shape[1]
    THEN Opt("ValueError", None, 0, 0)
    ELSE IF result.success
    THEN Opt("", Array(<<base_n_entries>>, result.x.num, result.x.den), 1, 1)
    ELSE Opt("Exception: Optimisation failed: " \o opt_status_lookup[result.status % 4],
             None, 2, 1)

\* self.boundary_spectrum(colour), result being what linprog answers
boundary_spectrum(c, result) ==
    IF IsCentre(c)
    THEN Opt("ValueError: Cannot get explicit boundary spectrum for centre of solid.",
             None, 0, 0)
    ELSE IF Len(c.shape) # 1
    THEN Opt("ValueError: Expected parameter 'colour' to be a 1D array.", None, 0, 0)
    ELSE IF n_dims # c.shape[1]
    THEN Opt("ValueError: Expected parameter 'colour' to have n_dims entries", None, 0, 0)
    ELSE IF CentreLine(n_dims, c).raised # ""
    THEN Opt(CentreLine(n_dims, c).raised, None, 0, 1)
    ELSE IF result.success
    THEN Opt("", Array(<<base_n_entries>>, result.x.num, result.x.den), 1, 1)
    ELSE IF result.status \in DOMAIN opt_status_lookup
    THEN Opt("Exception: Optimisation failed: " \o opt_status_lookup[result.status],
             None, 1, 1)
    ELSE Opt("KeyError", None, 1, 1)

\* self.colour(self.boundary_spectrum(colour))
boundary_colour(c, result) ==
    LET spectrum == boundary_spectrum(c, result)
    IN  IF spectrum.raised # "" THEN spectrum
        ELSE LET catches == colour(spectrum.value, None)
             IN  Opt(catches.raised, catches.value, spectrum.lp, spectrum.lines)

\* boundary_distance without the test for the centre
boundary_distance_unguarded(c, result) ==
    LET boundary == boundary_colour(c, result)
    IN  IF boundary.raised # "" THEN boundary
        ELSE Opt("", SquaredDistance(boundary.value), boundary.lp, boundary.lines)

boundary_distance(c, result) ==
    IF IsCentre(c) THEN Opt("", [num |-> 0, den |-> 1], 0, 0)
    ELSE LET boundary == boundary_colour(c, result)
         IN  IF boundary.raised # "" THEN boundary
             ELSE Opt("", SquaredDistance(boundary.value), boundary.lp, boundary.lines)

\* vividness_from_colour returning d2 / d1
vividness_from_colour_inverted(c, result) ==
    LET d1 == SquaredDistance(c)
        d2 == boundary_distance(c, result)
    IN  IF d2.raised # "" THEN d2
        ELSE Opt("",
                 IF d1.num = 0 THEN [nan |-> TRUE]
                 ELSE Lowest(d2.value.num * d1.den, d2.value.den * d1.num),
                 d2.lp, d2.lines)

\* d1 / d2: numpy divides by zero without raising, giving nan or inf
vividness_from_colour(c, result) ==
    LET d1 == SquaredDistance(c)
        d2 == boundary_distance(c, result)
    IN  IF d2.raised # "" THEN d2
        ELSE Opt("",
                 IF d2.value.num = 0
                 THEN (IF d1.num = 0 THEN [nan |-> TRUE] ELSE [inf |-> TRUE])
                 ELSE Lowest(d1.num * d2.value.den, d1.den * d2.value.num),
                 d2.lp, d2.lines)

vividness(reflectance, wavelengths, result) ==
    LET catches == colour(reflectance, wavelengths)
    IN  IF catches.raised # "" THEN Opt(catches.raised, None, 0, 0)
        ELSE vividness_from_colour(catches.value, result)

\* Solids for the optimisation surface, over OptRows samples: one to three
\* boxes each shifted by one sample, which coincide where the range ends,
\* and a ramp beside a box, this one with wavelengths.
OptArgs ==
    {WithCurves(ShiftedCurves(d, OptRows, w, 1),
                [simplify_tolerance |-> <<1, 20>>, wavelengths |-> None,
                 force_calculate |-> FALSE])
        : d \in 1..3, w \in 1..2}
    \cup
    {WithCurves(MatrixOf(<<RampCurve(OptRows, 1, OptRows),
                           BoxCurve(OptRows, OptRows, OptRows, 1)>>, OptRows),
                [simplify_tolerance |-> <<1, 20>>, wavelengths |-> [len |-> OptRows],
                 force_calculate |-> FALSE])}

OptGrid == 1

\* Colours of d entries: the centre, the centre moved up along each axis by
\* each of the steps 1/(2 OptGrid) .. 1/2, and the corner (0, .., 0); and
\* arrays one entry too long or two-dimensional, at and off the centre
ColoursOf(d) ==
    {Array(<<d>>, [i \in 1..d |-> IF i = axis THEN j ELSE OptGrid], 2 * OptGrid)
        : axis \in 1..d, j \in OptGrid..(2 * OptGrid)}
    \cup {Array(<<d>>, [i \in 1..d |-> 0], 1)}
    \cup {Array(<<d + 1>>, [i \in 1..(d + 1) |-> j], 2) : j \in 0..1}
    \cup {Array(<<1, d>>, [i \in 1..d |-> j], 2) : j \in 0..1}

Colours == ColoursOf(n_dims)

\* reflectances over k samples: all 0, the uniform 1/2, 1 on the first
\* sample only, 3/4 on the first sample and 1/4 on the others and the
\* reverse; and one an entry too long
ReflectancesOf(k) ==
    {Array(<<k>>, [n \in 1..k |-> j], 2) : j \in 0..1}
    \cup {Array(<<k>>, [n \in 1..k |-> IF n = 1 THEN 2 ELSE 0], 2),
          Array(<<k + 1>>, [n \in 1..(k + 1) |-> 2], 2)}
    \cup {Array(<<k>>, [n \in 1..k |-> IF n = 1 THEN j ELSE 4 - j], 4) : j \in {1, 3}}

Reflectances == ReflectancesOf(base_n_entries)

WavelengthArgs == {None, [len |-> base_n_entries], [len |-> base_n_entries + 1]}

\* The answers of the solver, solved once for each solid and each colour a
\* call can come with: the colours above and the catches of the reflectances.
AnswerTable ==
    [a \in OptArgs |->
        LET k == Len(a.curves)
            d == Len(a.curves[1])
            base == Normalise(a.curves, d)
            u == NormUnit(a.curves, d)
            seen == ColoursOf(d)
                    \cup {Catches(base, u, interp(k, Len(r.num), r.num), r.den)
                             : r \in ReflectancesOf(k)}
        IN  [c \in seen |-> Solutions(base, u, c)]]

\* what the solver may answer during a call with this colour
Answers(c) == AnswerTable[args][c]

\* a call on the optimisation surface that reads self.hull_data on its way
OptCallThroughHull(op, arg, result, o) ==
    /\ calc_runs + hull_data.calc <= MaxCalls
    /\ last' = [op |-> op, arg |-> arg, solver |-> result.status,
                raised |-> o.raised,
                result |-> IF o.raised = "" THEN o.value ELSE None,
                lp |-> o.lp, lines |-> o.lines]
    /\ _hull_data' = hull_data.hull
    /\ calc_runs' = calc_runs + hull_data.calc
    /\ hull_runs' = hull_runs + hull_data.hulls
    /\ UNCHANGED <<phase, args, qh, n_dims, base_n_entries, unit, base_curves,
                   curves, n_points, accesses, grown, threads>>

\* One call on the optimisation surface: `last` keeps the argument, the
\* status the solver answered (-1 when it was not reached) and the outcome.
OptCall(op, arg, result, o) ==
    /\ last' = [op |-> op, arg |-> arg, solver |-> result.status,
                raised |-> o.raised,
                result |-> IF o.raised = "" THEN o.value ELSE None,
                lp |-> o.lp, lines |-> o.lines]
    /\ UNCHANGED <<phase, args, qh, n_dims, base_n_entries, unit, base_curves,
                   curves, n_points, _hull_data, calc_runs, hull_runs, accesses,
                   grown, threads>>

CallColour ==
    /\ phase = "Constructed"
    /\ \E reflectance \in Reflectances, wavelengths \in WavelengthArgs :
          LET catches == colour(reflectance, wavelengths)
          IN  OptCall("colour",
                      [reflectance |-> reflectance, wavelengths |-> wavelengths],
                      NoAnswer, Opt(catches.raised, catches.value, 0, 0))

CallBoundarySpectrum ==
    /\ phase = "Constructed"
    /\ \E c \in Colours : \E result \in Answers(c) :
          OptCall("boundary_spectrum", c, result, boundary_spectrum(c, result))

CallBoundaryColour ==
    /\ phase = "Constructed"
    /\ \E c \in Colours : \E result \in Answers(c) :
          OptCall("boundary_colour", c, result, boundary_colour(c, result))

CallBoundaryDistance ==
    /\ phase = "Constructed"
    /\ \E c \in Colours : \E result \in Answers(c) :
          OptCall("boundary_distance", c, result, boundary_distance(c, result))

CallVividnessFromColour ==
    /\ phase = "Constructed"
    /\ \E c \in Colours : \E result \in Answers(c) :
          OptCall("vividness_from_colour", c, result, vividness_from_colour(c, result))

CallVividness ==
    /\ phase = "Constructed"
    /\ \E reflectance \in Reflectances, wavelengths \in WavelengthArgs :
          LET catches == colour(reflectance, wavelengths)
          IN  \E result \in (IF catches.raised = "" THEN Answers(catches.value)
                             ELSE {NoAnswer}) :
                 OptCall("vividness",
                         [reflectance |-> reflectance, wavelengths |-> wavelengths],
                         result, vividness(reflectance, wavelengths, result))

\* the tie-breaking of the hull primitive plays no part here
OptInit == InitFrom(OptArgs) /\ qh = 0

OptNext ==
    \/ Construct
    \/ GetHullData
    \/ CallColour
    \/ CallBoundarySpectrum
    \/ CallBoundaryColour
    \/ CallBoundaryDistance
    \/ CallVividnessFromColour
    \/ CallVividness

OptSpec == OptInit /\ [][OptNext]_vars

----------------------------------------------------------------------------
(* Properties: the optimisation surface *)

OptOps == {"colour", "boundary_spectrum", "boundary_colour", "boundary_distance",
           "vividness_from_colour", "vividness"}

\* the argument of the last call is a colour of the shape the solid expects
WellShaped == Len(last.arg.shape) = 1 /\ last.arg.shape[1] = n_dims

\* C11: boundary_spectrum called with the centre (every component exactly
\* 0.5) raises the undefined-direction error without invoking linprog or
\* implicit_line; no call of boundary_spectrum raises implicit_line's p = q
\* error.
C11_CentreRaises ==
    last.op = "boundary_spectrum" =>
       /\ IsCentre(last.arg) =>
             /\ last.raised = "ValueError: Cannot get explicit boundary spectrum for centre of solid."
             /\ last.lp = 0
             /\ last.lines = 0
       /\ last.raised # "ValueError: p and q do not describe a line, because p=q."

C11_Witness ==
    /\ last.op = "boundary_spectrum"
    /\ WellShaped
    /\ IsCentre(last.arg)
    /\ last.raised = "ValueError: Cannot get explicit boundary spectrum for centre of solid."

\* C12: boundary_distance of the centre returns exactly 0 and does not
\* invoke linprog; boundary_distance of any other colour of n_dims entries
\* invokes linprog, once, under boundary_colour and boundary_spectrum.
C12_CentreDistance ==
    last.op = "boundary_distance" =>
       /\ IsCentre(last.arg) =>
             /\ last.raised = ""
             /\ last.result = [num |-> 0, den |-> 1]
             /\ last.lp = 0
       /\ (WellShaped /\ ~IsCentre(last.arg)) =>
             /\ last.lp = 1
             /\ last.lines = 1
             /\ last.solver \in 0..4

C12_Witness ==
    /\ last.op = "boundary_distance"
    /\ WellShaped
    /\ ~IsCentre(last.arg)
    /\ last.lp = 1
    /\ last.raised = ""
    /\ last.result.num > 0

StatusText(st) ==
    CASE st = 1 -> "Iteration limit reached"
      [] st = 2 -> "Problem appears to be infeasible"
      [] st = 3 -> "Problem appears to be unbounded"

\* C13: when linprog reports iteration limit, infeasible or unbounded,
\* boundary_spectrum raises an exception whose message carries the text of
\* that status and returns nothing; linprog has been invoked exactly once;
\* and boundary_colour, boundary_distance, vividness_from_colour and
\* vividness raise the same exception.
C13_SolverFailure ==
    (last.op \in OptOps \ {"colour"} /\ last.solver \in 1..3) =>
       /\ last.raised = "Exception: Optimisation failed: " \o StatusText(last.solver)
       /\ last.result = None
       /\ last.lp = 1

C13_Witness ==
    /\ last.op = "vividness"
    /\ last.solver = 2
    /\ last.raised = "Exception: Optimisation failed: Problem appears to be infeasible"
    /\ last.lp = 1

\* C17: a call of colour, boundary_spectrum, boundary_colour,
\* boundary_distance, vividness_from_colour or vividness, whether it returns
\* or raises, runs neither calculate nor the hull primitive and leaves
\* _hull_data, base_curves and the pooled points as they were.
C17_HullIndependent ==
    [][last'.op \in OptOps =>
          UNCHANGED <<_hull_data, calc_runs, hull_runs, base_curves, curves, n_points>>]_vars

C17_Witness ==
    /\ last.op = "vividness"
    /\ last.raised = ""
    /\ last.lp = 1
    /\ _hull_data = None
    /\ calc_runs = 0

----------------------------------------------------------------------------
(* Two threads reading the property hull_data of one object.  The          *)
(* interpreter switches threads between bytecodes, so a read is several    *)
(* steps: the test `self._hull_data is None`; calculate() up to the value  *)
(* of ConvexHull(solid_data), which works on local data only; the          *)
(* assignment self._hull_data = ...; and the final read of                 *)
(* self._hull_data that gives the value returned.                          *)

RaceArgs ==
    {a \in SmallArgs : a.wavelengths = None /\ ~a.force_calculate}

\* `if self._hull_data is None:`
Enter(t) ==
    /\ phase = "Constructed"
    /\ threads[t].pc = "idle"
    /\ threads' = [threads EXCEPT ![t].pc = IF _hull_data = None THEN "calculate"
                                            ELSE "return",
                                  ![t].saw_none = (_hull_data = None)]
    /\ UNCHANGED <<phase, args, qh, n_dims, base_n_entries, unit, base_curves, curves,
                   n_points, _hull_data, calc_runs, hull_runs, accesses, grown, last>>

\* calculate() whose hull primitive breaks ties by the thread that calls it
ComputeByThread(t) ==
    /\ threads[t].pc = "calculate"
    /\ LET c == calculate_outcome(n_dims, curves, t - 1)
       IN  /\ threads' = [threads EXCEPT ![t].pc = IF c.raised # "" THEN "raised"
                                                   ELSE IF c.set THEN "store"
                                                   ELSE "return",
                                         ![t].local = c.hull]
           /\ calc_runs' = calc_runs + 1
           /\ hull_runs' = hull_runs + c.hulls
    /\ UNCHANGED <<phase, args, qh, n_dims, base_n_entries, unit, base_curves, curves,
                   n_points, _hull_data, accesses, grown, last>>

\* self.calculate() up to the value of ConvexHull(solid_data): it returns at
\* once in one dimension, and the hull primitive may raise
Compute(t) ==
    /\ threads[t].pc = "calculate"
    /\ LET c == calculate
       IN  /\ threads' = [threads EXCEPT ![t].pc = IF c.raised # "" THEN "raised"
                                                   ELSE IF c.set THEN "store"
                                                   ELSE "return",
                                         ![t].local = c.hull]
           /\ calc_runs' = calc_runs + 1
           /\ hull_runs' = hull_runs + c.hulls
    /\ UNCHANGED <<phase, args, qh, n_dims, base_n_entries, unit, base_curves, curves,
                   n_points, _hull_data, accesses, grown, last>>

\* self._hull_data = ConvexHull(solid_data)
Store(t) ==
    /\ threads[t].pc = "store"
    /\ _hull_data' = threads[t].local
    /\ threads' = [threads EXCEPT ![t].pc = "return"]
    /\ UNCHANGED <<phase, args, qh, n_dims, base_n_entries, unit, base_curves, curves,
                   n_points, calc_runs, hull_runs, accesses, grown, last>>

\* return self._hull_data
Return(t) ==
    /\ threads[t].pc = "return"
    /\ threads' = [threads EXCEPT ![t].pc = "done", ![t].returned = _hull_data]
    /\ UNCHANGED <<phase, args, qh, n_dims, base_n_entries, unit, base_curves, curves,
                   n_points, _hull_data, calc_runs, hull_runs, accesses, grown, last>>

RaceInit == InitFrom(RaceArgs)

RaceNext ==
    \/ Construct
    \/ \E t \in Threads : Enter(t)
    \/ \E t \in Threads : Compute(t)
    \/ \E t \in Threads : Store(t)
    \/ \E t \in Threads : Return(t)

RaceSpec == RaceInit /\ [][RaceNext]_vars

----------------------------------------------------------------------------
(* Properties: concurrent first access *)

\* both threads found _hull_data None and both have returned
BothRaced == \A t \in Threads : threads[t].pc = "done" /\ threads[t].saw_none

----------------------------------------------------------------------------
(* Properties: force_calculate *)

\* C21: when the constructor returns, the hull has been calculated if
\* force_calculate was True (on a solid whose hull can be computed,
\* _hull_data is set and calculate has run once), and has not been if it was
\* False.
C21_ForceCalculate ==
    (phase = "Constructed" /\ last.op = "__init__") =>
       /\ (args.force_calculate /\ grown.set) => (_hull_data # None /\ calc_runs = 1)
       /\ ~args.force_calculate => (_hull_data = None /\ calc_runs = 0)

----------------------------------------------------------------------------
(* Properties: shapes, feasibility and the round trip *)

\* C22: boundary_spectrum called with an array that is not 1-D, or whose
\* length is not n_dims, raises the shape-mismatch error, whatever its
\* entries, and does not invoke linprog.
C22_ShapeMismatch ==
    (last.op = "boundary_spectrum" /\ ~WellShaped) =>
       /\ last.raised \in {"ValueError: Expected parameter 'colour' to be a 1D array.",
                           "ValueError: Expected parameter 'colour' to have n_dims entries"}
       /\ last.lp = 0

----------------------------------------------------------------------------
(* spectrumtools.extreme.extreme_spectrum, a pure function *)

ExtWaves == 4
ExtTransitions == 3

\* the wavelengths 1..ExtWaves; transitions, in any order and with repeats,
\* on, between, below and above them
ExtremeArgs ==
    {[wavelengths |-> [i \in 1..ExtWaves |-> i], one_first |-> b, transitions |-> t]
        : b \in BOOLEAN,
          t \in UNION {[1..n -> 0..(ExtWaves + 1)] : n \in 0..ExtTransitions}}

\* the loop of value(): is_one ^= (transition > wavelength), from the i-th
\* transition on
RECURSIVE ValueFrom(_, _, _, _)
ValueFrom(wavelength, transitions, i, is_one) ==
    IF i > Len(transitions) THEN is_one
    ELSE ValueFrom(wavelength, transitions, i + 1,
                   is_one # (transitions[i] > wavelength))

\* value(wavelength): 1.0 if is_one else 0.0
value(wavelength, one_first, transitions) ==
    IF ValueFrom(wavelength, transitions, 1, one_first) THEN 1 ELSE 0

extreme_spectrum(wavelengths, one_first, transitions) ==
    LET sorted == SortInts(transitions)
    IN  [i \in 1..Len(wavelengths) |-> value(wavelengths[i], one_first, sorted)]

CallExtremeSpectrum ==
    /\ phase = "Uninitialized"
    /\ last = NoCall
    /\ last' = [op |-> "extreme_spectrum", dimension |-> 0, raised |-> "",
                result |-> extreme_spectrum(args.wavelengths, args.one_first,
                                            args.transitions)]
    /\ UNCHANGED <<phase, args, qh, n_dims, base_n_entries, unit, base_curves, curves,
                   n_points, _hull_data, calc_runs, hull_runs, accesses, grown, threads>>

ExtremeInit == InitFrom(ExtremeArgs)

ExtremeNext == CallExtremeSpectrum

ExtremeSpec == ExtremeInit /\ [][ExtremeNext]_vars

\* how many of the transitions t satisfy lo < t <= hi
TransitionsIn(lo, hi) ==
    Cardinality({i \in 1..Len(args.transitions) :
                    lo < args.transitions[i] /\ args.transitions[i] <= hi})

\* C23: extreme_spectrum returns only 0 and 1; at every wavelength below all
\* transitions it is 1 when one_first is true and 0 when it is false,
\* whatever the number of transitions; and between one wavelength and the
\* next it changes exactly when one transition lies between them.
C23_ExtremeSpectrum ==
    last.op = "extreme_spectrum" =>
       /\ \A i \in 1..ExtWaves : last.result[i] \in {0, 1}
       /\ \A i \in 1..ExtWaves :
             (\A j \in 1..Len(args.transitions) : args.transitions[j] > i)
                => last.result[i] = (IF args.one_first THEN 1 ELSE 0)
       /\ \A i \in 1..(ExtWaves - 1) :
             TransitionsIn(i, i + 1) = 1 => last.result[i] # last.result[i + 1]
       /\ \A i \in 1..(ExtWaves - 1) :
             TransitionsIn(i, i + 1) = 0 => last.result[i] = last.result[i + 1]

\* C27: the problem boundary_spectrum hands to linprog for a colour of
\* n_dims entries other than the centre is feasible: the uniform spectrum
\* x = 1/2 on every sample satisfies A_ub x <= b_ub (0 <= x <= 1) and
\* A_eq x = b_eq, so the call gets as far as the solver.
C27_Feasible ==
    (last.op = "boundary_spectrum" /\ WellShaped /\ ~IsCentre(last.arg)) =>
       LET lp == lp_problem(base_curves, unit, last.arg)
       IN  /\ \A r \in 1..Len(lp.A_ub) : SumSeq(lp.A_ub[r]) <= 2 * lp.b_ub[r]
           /\ \A r \in 1..Len(lp.A_eq) : SumSeq(lp.A_eq[r]) = 2 * lp.b_eq[r]
           /\ Len(lp.A_eq) = n_dims - 1
           /\ last.lp = 1

C27_Witness ==
    /\ last.op = "boundary_spectrum"
    /\ WellShaped
    /\ ~IsCentre(last.arg)
    /\ n_dims = 3
    /\ last.raised = ""
    /\ \E k \in 1..base_n_entries : 2 * last.result.num[k] # last.result.den

\* every entry of the reflectance is strictly between 0 and 1: its colour is
\* in the (relative) interior of the solid
InsideReflectance(r) ==
    /\ r.shape = <<base_n_entries>>
    /\ \A n \in 1..base_n_entries : 0 < r.num[n] /\ r.num[n] < r.den

\* the solid has n_dims independent generators: it has an interior
FullRank ==
    \E rows \in KSubsets(1..base_n_entries, n_dims) :
        Det(SubMatrix(base_curves, SortedSeq(rows), [i \in 1..n_dims |-> i])) # 0

\* C24: for a colour c inside the solid (the colour of a reflectance with
\* all entries strictly between 0 and 1) other than the centre, when the
\* solver succeeds, the vividness of c is strictly between 0 and 1, and the
\* vividness of boundary_colour(c) is 1.
C24_RoundTrip ==
    (/\ last.op = "vividness"
     /\ last.arg.wavelengths = None
     /\ InsideReflectance(last.arg.reflectance)
     /\ last.solver = 0) =>
       LET c == colour(last.arg.reflectance, None).value
       IN  /\ last.raised = ""
           /\ 0 < last.result.num
           /\ last.result.num < last.result.den
           /\ \A first \in Answers(c) :
                 first.success =>
                    LET boundary == boundary_colour(c, first).value
                    IN  \A second \in Solutions(base_curves, unit, boundary) :
                           second.success =>
                              vividness_from_colour(boundary, second).value
                                 = [num |-> 1, den |-> 1]

C24_Witness ==
    /\ last.op = "vividness"
    /\ last.arg.wavelengths = None
    /\ InsideReflectance(last.arg.reflectance)
    /\ FullRank
    /\ n_dims = 3
    /\ last.solver = 0
    /\ last.raised = ""
    /\ last.result.num > 0

----------------------------------------------------------------------------
(* Properties: the growth of the hull *)

\* the working set after the seeding loop of calculate()
Parallelepiped == SeedFrom(curves, n_dims, 0, <<[c \in 1..n_dims |-> 0]>>)

\* C25: a calculate() that returns on a solid of D >= 2 channels and n
\* pooled points has seeded the working set with 2^D points without any hull
\* computation, has pruned once per remaining point (n - D hull
\* computations) and has computed one more hull, which is what is stored:
\* n - D + 1 invocations of the hull primitive in all.  The stored hull's
\* points are the pruned working set: each is a vertex of the hull and a sum
\* of some of the pooled points.
C25_GrowthProtocol ==
    [][(/\ phase = "Constructed"
        /\ n_dims >= 2
        /\ last'.op = "calculate"
        /\ last'.raised = "") =>
          /\ n_points >= n_dims
          /\ Len(Parallelepiped.data) = 2 ^ n_dims
          /\ hull_runs' = hull_runs + (n_points - n_dims) + 1
          /\ _hull_data' # None
          /\ Len(_hull_data'.points) = Len(_hull_data'.vertices)
          /\ \A i \in 1..Len(_hull_data'.points) :
                \E corner \in SUBSET (1..n_points) :
                   _hull_data'.points[i]
                      = [c \in 1..n_dims |-> SumSeq([k \in 1..n_points |->
                            IF k \in corner THEN curves[k][c] ELSE 0])]]_vars

C25_Witness ==
    /\ last.op = "calculate"
    /\ last.raised = ""
    /\ n_dims >= 2
    /\ n_points >= n_dims + 2
    /\ hull_runs = n_points - n_dims + 1
    /\ _hull_data # None

----------------------------------------------------------------------------
(* Properties: the points of a slice *)

\* the edge is treated as crossing by slice_solid
TreatedAsCrossing(edge) == Crossing(args.points, edge, args.z, args.dir)

CrossingEdges == SelectSeq(args.edges, TreatedAsCrossing)

\* z1 != z2 for the ends of the edge
ScalarsDiffer(edge) ==
    IF SumSeq(args.dir) = 0
    THEN \/ "nan" \in {Unbounded(At(args.points, edge[1]), args.dir),
                       Unbounded(At(args.points, edge[2]), args.dir)}
         \/ Unbounded(At(args.points, edge[1]), args.dir)
               # Unbounded(At(args.points, edge[2]), args.dir)
    ELSE Dot(At(args.points, edge[1]), args.dir)
            # Dot(At(args.points, edge[2]), args.dir)

\* p is f*P1 + (1-f)*P0 for the ends P0, P1 of the edge and some fraction
\* 0 <= f < 1, and its scalar coordinate dot(p, dir) / sum(dir) is z
InterpolatedAt(p, edge) ==
    LET P0 == At(args.points, edge[1])
        P1 == At(args.points, edge[2])
    IN  /\ p.den > 0
        /\ \E fnum \in 0..(p.den - 1) :
              p.num = [c \in 1..3 |-> fnum * P1[c] + (p.den - fnum) * P0[c]]
        /\ Dot(p.num, args.dir) = args.z * SumSeq(args.dir) * p.den

\* C26 as stated: no division of slice_solid goes wrong: every edge it
\* treats as crossing has ends with different scalar coordinates, the output
\* holds exactly one point per such edge, in
\* the order of the edges, and each point is f*P1 + (1-f)*P0 with
\* 0 <= f < 1 and has scalar coordinate exactly z.
C26_Interpolation ==
    last.op = "slice_solid" =>
       /\ \A i \in 1..Len(CrossingEdges) : ScalarsDiffer(CrossingEdges[i])
       /\ Len(last.result) = Len(CrossingEdges)
       /\ \A i \in 1..Len(CrossingEdges) :
             InterpolatedAt(last.result[i], CrossingEdges[i])

\* the same for directions whose entries do not sum to zero
C26_FiniteInterpolation ==
    (last.op = "slice_solid" /\ SumSeq(args.dir) # 0) => C26_Interpolation

\* two crossing edges, cut at two different points, the first strictly
\* inside its edge
C26_Witness ==
    /\ last.op = "slice_solid"
    /\ SumSeq(args.dir) # 0
    /\ Len(last.result) = 2
    /\ Len(args.edges) = 3
    /\ last.result[1].den > 1
    /\ \E c \in 1..3 : last.result[1].num[c] * last.result[2].den
                          # last.result[2].num[c] * last.result[1].den
    /\ \E c \in 1..3 : last.result[1].num[c]
                          # last.result[1].den * At(args.points, CrossingEdges[1][1])[c]

----------------------------------------------------------------------------
(* slicer.get_edges and the simplices(1) path, on lists of triangular      *)
(* facets.  A facet is three different vertex indices: ascending,           *)
(* descending, or with the smallest last.                                  *)

\* the vertices are 0..EdgeVertices-1
EdgeVertices == 4
\* the longest list of facets
EdgeFacets == 2

Triangles ==
    UNION {{<<t[1], t[2], t[3]>>, <<t[3], t[2], t[1]>>, <<t[2], t[3], t[1]>>}
              : t \in {u \in [1..3 -> 0..(EdgeVertices - 1)] :
                          u[1] < u[2] /\ u[2] < u[3]}}

EdgeArgs ==
    {[facets |-> f] : f \in UNION {[1..n -> Triangles] : n \in 0..EdgeFacets}}

sort_pair(a, b) == IF a > b THEN <<b, a>> ELSE <<a, b>>

\* the pairs of the first index with each later one, then the same for
\* simplex[1:]
RECURSIVE expand_simplex(_)
expand_simplex(simplex) ==
    IF Len(simplex) > 1
    THEN [i \in 1..(Len(simplex) - 1) |-> sort_pair(simplex[1], simplex[i + 1])]
         \o expand_simplex(Tail(simplex))
    ELSE <<>>

\* A comparitor which gives a unique ordering to pairs of numbers
edge_cmp(e1, e2) ==
    IF e1[1] = e2[1]
    THEN IF e1[2] = e2[2] THEN 0 ELSE IF e1[2] > e2[2] THEN 1 ELSE 0 - 1
    ELSE IF e1[1] > e2[1] THEN 1 ELSE 0 - 1

\* edge_data = []; for i in range(n_simps): edge_data += expand_simplex(...)
RECURSIVE ExpandAll(_)
ExpandAll(simplex_data) ==
    IF simplex_data = <<>> THEN <<>>
    ELSE expand_simplex(Head(simplex_data)) \o ExpandAll(Tail(simplex_data))

\* edge_data.sort(): ascending in Python's order on lists, stable
SortedEdges(edge_data) ==
    LET n == Len(edge_data)
        place == [i \in 1..n |->
                    1 + Cardinality({j \in 1..n :
                                        \/ TupleLess(edge_data[j], edge_data[i])
                                        \/ edge_data[j] = edge_data[i] /\ j < i})] \o <<>>
    IN  [r \in 1..n |-> edge_data[CHOOSE i \in 1..n : place[i] = r]]

\* out_data = edge_data[:1]; for i in range(1, len(edge_data)): append
\* edge_data[i] when edge_cmp(edge_data[i-1], edge_data[i]) != 0
RECURSIVE UniqueFrom(_, _, _)
UniqueFrom(edge_data, i, out_data) ==
    IF i >= Len(edge_data) THEN out_data
    ELSE UniqueFrom(edge_data, i + 1,
                    IF edge_cmp(At(edge_data, i - 1), At(edge_data, i)) # 0
                    THEN Append(out_data, At(edge_data, i))
                    ELSE out_data)

get_edges(simplex_data) ==
    LET edge_data == SortedEdges(ExpandAll(simplex_data))
    IN  UniqueFrom(edge_data, 1, IF edge_data = <<>> THEN <<>> ELSE <<Head(edge_data)>>)

\* _simplices(1) of a 3-D solid from its facets: lower_simplex_order of
\* every facet, then remove_duplicates
simplices_from_facets(simplex_list) == remove_duplicates(LowerAll(simplex_list))

\* both paths on the same facets
CallEdgePaths ==
    /\ phase = "Uninitialized"
    /\ last = NoCall
    /\ last' = [op |-> "get_edges", dimension |-> 0, raised |-> "",
                result |-> [get_edges |-> get_edges(args.facets),
                            simplices |-> simplices_from_facets(args.facets)]]
    /\ UNCHANGED <<phase, args, qh, n_dims, base_n_entries, unit, base_curves, curves,
                   n_points, _hull_data, calc_runs, hull_runs, accesses, grown, threads>>

EdgeInit == InitFrom(EdgeArgs)

EdgeNext == CallEdgePaths

EdgeSpec == EdgeInit /\ [][EdgeNext]_vars

\* the edges get_edges returns have no repeats, each is [smaller, larger],
\* and as a set they are the canonical forms of the edges the simplices(1)
\* path returns
PathsAgree ==
    LET edges == last.result.get_edges
        other == last.result.simplices
    IN  /\ other.raised = ""
        /\ \A i, j \in 1..Len(edges) : edges[i] = edges[j] => i = j
        /\ \A i \in 1..Len(edges) : edges[i][1] <= edges[i][2]
        /\ {edges[i] : i \in 1..Len(edges)}
              = {simplex_duplicate_key(other.value[i]) : i \in 1..Len(other.value)}

C28_NonEmptyAgree == (last.op = "get_edges" /\ args.facets # <<>>) => PathsAgree

=============================================================================
